---- MODULE Spec2Model ----
(***************************************************************************)
(* Adaptive performance controller and resize handling of the avatar page  *)
(* (src/unnamed/part_001).                                                  *)
(*                                                                         *)
(* Units.  Wall-clock time (performance.now()) and the frame delta are     *)
(* integers in milliseconds.  _emaFrameTime and both accumulators are in   *)
(* microseconds (so delta*1000 ms and delta*400 ms are exact).  Base caps  *)
(* and the native devicePixelRatio are in hundredths (1.55 is 155), bucket *)
(* multipliers in tenths, and pixel ratios in thousandths (1.395 is 1395). *)
(* JavaScript's 0-based table indices are kept; the tables are 1-based     *)
(* sequences read at index + 1.                                            *)
(***************************************************************************)
EXTENDS Integers, Sequences, FiniteSets, TLC

VARIABLES
    deviceProfile,            \* __deviceProfile
    devicePixelRatio,         \* window.devicePixelRatio (0 = not reported)
    dprBucketIndex,           \* _dprBucketIndex
    effectQualityLevel,       \* _effectQualityLevel
    emaFrameTime,             \* _emaFrameTime
    lastPerfChangeTime,       \* _lastPerfChangeTime
    lowPerfAccum,             \* _lowPerfAccum
    highPerfAccum,            \* _highPerfAccum
    lastCSSW, lastCSSH,       \* _lastCSSW, _lastCSSH
    resumeGuardUntil,         \* _resumeGuardUntil
    resumeIgnoreFrames,       \* _resumeIgnoreFrames
    postResumeDebounceUntil,  \* _postResumeDebounceUntil
    rendererPixelRatio,       \* ratio last handed to renderer.setPixelRatio
    now,                      \* performance.now()
    clockOldTime,             \* THREE.Clock.oldTime of `clock`
    viewport,                 \* <<visualViewport width, height>>
    resizeRAF,                \* resizeRAF (0 = nothing pending)
    rafQueue,                 \* callbacks of handleResize waiting for the next frame
    resizeLog,                \* history: resize events, bursts and handlings so far
    frames,                   \* number of animation frames run so far
    events,                   \* number of browser events and override calls so far
    lastOp,                   \* history: the operation that produced this state
    hist,                     \* history: resume and ladder-change times
    scrollY,                  \* window.scrollY, in tenths of a CSS pixel
    sectionHeight,            \* _getSectionCSSHeight(), in tenths of a CSS pixel
    currentSection,           \* currentSection
    isScrolling,              \* isScrolling
    scrollTimeout,            \* targetSection of the pending scrollTimeout, -1 = none
    currentScrollProgress,    \* currentScrollProgress, a fraction [n, d]
    glassMode,                \* configuration last pushed to the reeded-glass effect
    tweens,                   \* running GSAP progress tweens, [from, to]
    scrollToTop,              \* `top` of the last window.scrollTo, -1 = none yet
    scrollPush,               \* gradient top colour, saturation and exposure last pushed
    effects,                  \* _reedEffect, _vignetteEffect and animate._depthRT
    scrollSystem,             \* fields of the ScrollSystem instance (part_002)
    lastSysOp,                \* history: the ScrollSystem operation that produced this state
    lastScrollOp              \* history: the scroll operation that produced this state

vars == <<deviceProfile, devicePixelRatio, dprBucketIndex, effectQualityLevel,
          emaFrameTime, lastPerfChangeTime, lowPerfAccum, highPerfAccum,
          lastCSSW, lastCSSH, resumeGuardUntil, resumeIgnoreFrames,
          postResumeDebounceUntil, rendererPixelRatio, now, clockOldTime,
          viewport, resizeRAF, rafQueue, resizeLog, frames, events, lastOp, hist,
          scrollY, sectionHeight, currentSection, isScrolling, scrollTimeout,
          currentScrollProgress, glassMode, tweens, scrollToTop, lastScrollOp,
          scrollPush, scrollSystem, lastSysOp, effects>>

(***************************************************************************)
(* Bounds of the exploration.                                              *)
(***************************************************************************)
MaxFrames == 2
MaxEvents == 1
MaxPageEvents == 2
MaxCallEvents == 3
MaxResumeFrames == 62
MaxResumes == 1
MaxResumeTime == 6000
MaxBudgetCalls == 2
MaxThirtyFrames == 150
MaxProfileFrames == 1
MaxScrollEvents == 2
MaxResizeEvents == 3
MaxSystemEvents == 4
MaxSetterCalls == 2
MaxNeutralFrames == 3

(***************************************************************************)
(* Program constants.                                                      *)
(***************************************************************************)
MAX_EFFECTIVE_DPR == 175
DPR_BUCKETS == <<10, 9, 8>>
EFFECT_QUALITY_LEVELS == <<"ultra", "high", "med", "low">>
PERF_FPS_DROP_THRESHOLD == 55
PERF_FPS_RAISE_THRESHOLD == 65
\* the value of the earlier revision of the script
PERF_DEGRADE_MIN_DURATION_REV0 == 1000
PERF_DEGRADE_MIN_DURATION == 4000
PERF_UPGRADE_MIN_DURATION == 6000
PERF_CHANGE_DEBOUNCE == 1300
POST_RESUME_EXTRA_DEBOUNCE == 700
RESUME_GUARD_MS == 4500
RESUME_IGNORE_FRAMES == 60
POST_RESUME_DEBOUNCE_MS == 7000
BASE_CAP_STEP == 10
ACCUM_DECAY_PER_MS == 400
PIXEL_BUDGET == 9000000
EMA_INITIAL == 16667

Min(a, b) == IF a <= b THEN a ELSE b
Max(a, b) == IF a >= b THEN a ELSE b

(***************************************************************************)
(* detectDeviceProfile.  The argument is the environment the function      *)
(* reads: the user-agent tests, the pointer media query, navigator.vendor  *)
(* and gpu, the screen size, the core count and the native pixel ratio.    *)
(***************************************************************************)
\* window.devicePixelRatio || 1 (0 stands for a ratio the browser does not report)
nativePixelRatio(dpr) == IF dpr = 0 THEN 100 ELSE dpr

\* a bug: the caps are not limited to the native ratio
detectDeviceProfileNoNativeClamp(e) ==
    LET isMobile == e.uaMobile \/ e.pointerCoarse
        dpr == nativePixelRatio(e.dpr)
        minSide == Min(e.screenW, e.screenH)
        maxSide == Max(e.screenW, e.screenH)
        isTablet == (~isMobile /\ e.uaTablet)
                    \/ (minSide >= 768 /\ minSide < 1100 /\ dpr >= 150)
        isAppleSilicon == e.uaMac /\ e.vendorApple /\ (e.gpuInNavigator \/ e.uaArm)
        isM1AirLike == isAppleSilicon /\ dpr >= 200 /\ maxSide <= 2560
        largeDisplay == maxSide >= 2560
        isHighEndPhone == isMobile /\ ((e.uaIPhone /\ e.cores >= 6)
                                       \/ (e.cores >= 8 /\ dpr >= 300))
        category == IF isMobile THEN "phone"
                    ELSE IF isTablet THEN "tablet"
                    ELSE IF isM1AirLike THEN "fanless"
                    ELSE "desktop"
        capInit == IF isMobile THEN (IF isHighEndPhone THEN 160 ELSE 135)
                   ELSE IF isTablet THEN 125
                   ELSE IF isM1AirLike THEN 125
                   ELSE IF largeDisplay THEN 118 ELSE 155
        capMax == IF isMobile THEN (IF isHighEndPhone THEN 170 ELSE 150)
                  ELSE IF isTablet THEN 130
                  ELSE IF isM1AirLike THEN 135
                  ELSE IF largeDisplay THEN 155 ELSE MAX_EFFECTIVE_DPR
    IN  [category |-> category,
         baseCapInitial |-> capInit,
         baseCapMax |-> capMax,
         baseCapCurrent |-> capInit,
         largeDisplay |-> largeDisplay]

detectDeviceProfile(e) ==
    LET isMobile == e.uaMobile \/ e.pointerCoarse
        dpr == nativePixelRatio(e.dpr)
        minSide == Min(e.screenW, e.screenH)
        maxSide == Max(e.screenW, e.screenH)
        isTablet == (~isMobile /\ e.uaTablet)
                    \/ (minSide >= 768 /\ minSide < 1100 /\ dpr >= 150)
        isAppleSilicon == e.uaMac /\ e.vendorApple /\ (e.gpuInNavigator \/ e.uaArm)
        isM1AirLike == isAppleSilicon /\ dpr >= 200 /\ maxSide <= 2560
        largeDisplay == maxSide >= 2560
        isHighEndPhone == isMobile /\ ((e.uaIPhone /\ e.cores >= 6)
                                       \/ (e.cores >= 8 /\ dpr >= 300))
        category == IF isMobile THEN "phone"
                    ELSE IF isTablet THEN "tablet"
                    ELSE IF isM1AirLike THEN "fanless"
                    ELSE "desktop"
        capInit == IF isMobile THEN (IF isHighEndPhone THEN 160 ELSE 135)
                   ELSE IF isTablet THEN 125
                   ELSE IF isM1AirLike THEN 125
                   ELSE IF largeDisplay THEN 118 ELSE 155
        capMax == IF isMobile THEN (IF isHighEndPhone THEN 170 ELSE 150)
                  ELSE IF isTablet THEN 130
                  ELSE IF isM1AirLike THEN 135
                  ELSE IF largeDisplay THEN 155 ELSE MAX_EFFECTIVE_DPR
    IN  [category |-> category,
         baseCapInitial |-> Min(capInit, dpr),
         baseCapMax |-> Min(capMax, dpr),
         baseCapCurrent |-> Min(capInit, dpr),
         largeDisplay |-> largeDisplay]

(***************************************************************************)
(* currentTargetPixelRatio, in thousandths, for base cap `cap`, bucket     *)
(* index `b` and native ratio `dpr`.                                       *)
(***************************************************************************)
\* DPR_BUCKETS[_dprBucketIndex] || 1.0
bucketMul(b) == IF b + 1 \in DOMAIN DPR_BUCKETS THEN DPR_BUCKETS[b + 1] ELSE 10

\* a bug: the clamp to the native ratio is missing
currentTargetPixelRatioNoNative(cap, b, dpr) ==
    Min(cap * bucketMul(b), MAX_EFFECTIVE_DPR * 10)

currentTargetPixelRatio(cap, b, dpr) ==
    Min(Min(cap * bucketMul(b), MAX_EFFECTIVE_DPR * 10),
        nativePixelRatio(dpr) * 10)

(***************************************************************************)
(* internalPixels > PIXEL_BUDGET, with internalPixels = w * h * pr * pr.   *)
(* The product w*h*pr^2 (pr in thousandths) is compared with               *)
(* PIXEL_BUDGET * 10^6 in base 10^3 limbs so that no intermediate value    *)
(* leaves the 32-bit range.                                                *)
(***************************************************************************)
internalPixelsOverBudget(w, h, pr) ==
    LET a == w * h
        p == pr * pr
        aH == a \div 1000
        aL == a % 1000
        pH == p \div 1000
        pL == p % 1000
        lo == aL * pL
        mid == aH * pL + aL * pH + (lo \div 1000)
        hi == aH * pH + (mid \div 1000)
        rest == (mid % 1000) * 1000 + (lo % 1000)
    IN  hi > PIXEL_BUDGET \/ (hi = PIXEL_BUDGET /\ rest > 0)

(***************************************************************************)
(* The ladder state threaded through the controller functions:             *)
(*   tier, bucket  _effectQualityLevel, _dprBucketIndex                    *)
(*   cap           __deviceProfile.baseCapCurrent                          *)
(*   last          _lastPerfChangeTime                                     *)
(*   epr           ratio last given to renderer.setPixelRatio              *)
(*   applies       number of _applyRendererPixelRatio entries in the call  *)
(* and the environment c = [w, h, dpr]: _lastCSSW, _lastCSSH, native dpr.  *)
(***************************************************************************)
\* a bug: an over-budget size sends the bucket straight to the worst one
budgetLoopToWorst(c, cap, b) ==
    IF internalPixelsOverBudget(c.w, c.h, currentTargetPixelRatio(cap, b, c.dpr))
    THEN Len(DPR_BUCKETS) - 1
    ELSE b

(***************************************************************************)
(* Overlay effects (src/src/effects/OverlayEffects.js).  An effect handle  *)
(* is a record of its uniforms with exists = TRUE, or NullEffect before    *)
(* the effect is created.  A call that dereferences a missing effect       *)
(* raises; its outcome is TypeError.                                       *)
(***************************************************************************)
NullEffect == [exists |-> FALSE]
TypeError == [exists |-> FALSE, raised |-> "TypeError"]

\* reededScale of the tiers of EFFECT_QUALITY_LEVELS, in tenths
REEDED_SCALE == <<10, 9, 8, 7>>

\* setReededResolution(effect, w, h); uFluteWidthPx is computed from w
setReededResolution(effect, w, h) ==
    IF ~effect.exists THEN effect
    ELSE [effect EXCEPT !.resolution = <<w, h>>, !.fluteWidthFor = w]

\* a bug: the test for a missing effect is absent
setBottomVignetteResolutionUnguarded(effect, w, h) ==
    IF ~effect.exists THEN TypeError
    ELSE [effect EXCEPT !.resolution = <<w, h>>]

\* setBottomVignetteResolution(effect, w, h)
setBottomVignetteResolution(effect, w, h) ==
    IF ~effect.exists THEN effect
    ELSE [effect EXCEPT !.resolution = <<w, h>>]

\* setReededDepth(effect, depthTexture, near, far); the camera planes are
\* constants of the scene
setReededDepth(effect, depthTexture) ==
    IF ~effect.exists THEN effect
    ELSE [effect EXCEPT !.tDepth = depthTexture]

\* applyEffectQuality()
applyEffectQuality(c, s) ==
    IF s.tier + 1 \notin DOMAIN EFFECT_QUALITY_LEVELS THEN s
    ELSE IF ~s.fx.reed.exists THEN s
    ELSE [s EXCEPT !.fx.reed =
             setReededResolution(@, (c.w * REEDED_SCALE[s.tier + 1]) \div 10,
                                    (c.h * REEDED_SCALE[s.tier + 1]) \div 10)]

\* the vignette push of _applyRendererPixelRatio, at pixel ratio pr
vignettePush(c, fx, pr) ==
    IF ~fx.vignette.exists THEN fx
    ELSE [fx EXCEPT !.vignette =
             setBottomVignetteResolution(@, (c.w * pr) \div 1000,
                                            (c.h * pr) \div 1000)]

RECURSIVE budgetLoop(_, _, _)
budgetLoop(c, cap, b) ==
    IF internalPixelsOverBudget(c.w, c.h, currentTargetPixelRatio(cap, b, c.dpr))
       /\ b < Len(DPR_BUCKETS) - 1
    THEN budgetLoop(c, cap, b + 1)
    ELSE b

\* a bug: one bucket step per call, and no re-application of the ratio
enforcePixelBudgetOneStep(c, s) ==
    IF internalPixelsOverBudget(c.w, c.h,
                                currentTargetPixelRatio(s.cap, s.bucket, c.dpr))
       /\ s.bucket < Len(DPR_BUCKETS) - 1
    THEN [s EXCEPT !.bucket = @ + 1]
    ELSE s

\* a bug: the loop moves the bucket and the new ratio is never applied
enforcePixelBudgetNoReapply(c, s) ==
    [s EXCEPT !.bucket = budgetLoop(c, s.cap, s.bucket)]

\* a bug: the ratio is applied without the pixel budget check that follows
applyRendererPixelRatioNoBudget(c, s) ==
    LET pr == currentTargetPixelRatio(s.cap, s.bucket, c.dpr)
    IN  applyEffectQuality(c,
            [s EXCEPT !.epr = pr, !.applies = @ + 1,
                      !.fx = vignettePush(c, @, pr)])

RECURSIVE applyRendererPixelRatio(_, _)
RECURSIVE enforcePixelBudget(_, _)

applyRendererPixelRatio(c, s) ==
    LET pr == currentTargetPixelRatio(s.cap, s.bucket, c.dpr)
    IN  enforcePixelBudget(c,
            applyEffectQuality(c,
                [s EXCEPT !.epr = pr, !.applies = @ + 1,
                          !.fx = vignettePush(c, @, pr)]))

enforcePixelBudget(c, s) ==
    LET b2 == budgetLoop(c, s.cap, s.bucket)
    IN  IF b2 # s.bucket
        THEN applyRendererPixelRatio(c, [s EXCEPT !.bucket = b2])
        ELSE s

\* a bug: the post-resume extension is forgotten
effectiveDebounceMsNoExtra(t, postUntil) == PERF_CHANGE_DEBOUNCE

effectiveDebounceMs(t, postUntil) ==
    PERF_CHANGE_DEBOUNCE + (IF t < postUntil THEN POST_RESUME_EXTRA_DEBOUNCE ELSE 0)

(***************************************************************************)
(* attemptDegrade(now) and attemptUpgrade(now).  g = [guardUntil,          *)
(* postUntil, category, capMax] are the globals they read.                 *)
(***************************************************************************)
\* a bug: the DPR bucket is dropped before the effect tier
attemptDegradeBucketFirst(c, g, s, t) ==
    IF t < g.guardUntil THEN s
    ELSE IF t - s.last < effectiveDebounceMs(t, g.postUntil) THEN s
    ELSE IF s.bucket < Len(DPR_BUCKETS) - 1
         THEN [applyRendererPixelRatio(c, [s EXCEPT !.bucket = @ + 1])
                  EXCEPT !.last = t]
    ELSE IF s.tier < Len(EFFECT_QUALITY_LEVELS) - 1
         THEN [applyEffectQuality(c, [s EXCEPT !.tier = @ + 1])
                  EXCEPT !.last = t]
    ELSE s

\* a bug: the resume-guard test is missing
attemptDegradeNoGuard(c, g, s, t) ==
    IF t - s.last < effectiveDebounceMs(t, g.postUntil) THEN s
    ELSE IF s.tier < Len(EFFECT_QUALITY_LEVELS) - 1
         THEN [applyEffectQuality(c, [s EXCEPT !.tier = @ + 1])
                  EXCEPT !.last = t]
    ELSE IF s.bucket < Len(DPR_BUCKETS) - 1
         THEN [applyRendererPixelRatio(c, [s EXCEPT !.bucket = @ + 1])
                  EXCEPT !.last = t]
    ELSE s

attemptDegrade(c, g, s, t) ==
    IF t < g.guardUntil THEN s
    ELSE IF t - s.last < effectiveDebounceMs(t, g.postUntil) THEN s
    ELSE IF s.tier < Len(EFFECT_QUALITY_LEVELS) - 1
         THEN [applyEffectQuality(c, [s EXCEPT !.tier = @ + 1])
                  EXCEPT !.last = t]
    ELSE IF s.bucket < Len(DPR_BUCKETS) - 1
         THEN [applyRendererPixelRatio(c, [s EXCEPT !.bucket = @ + 1])
                  EXCEPT !.last = t]
    ELSE s

\* a bug: the base cap is raised on every device category
attemptUpgradeAnyCategory(c, g, s, t) ==
    IF t - s.last < effectiveDebounceMs(t, g.postUntil) THEN s
    ELSE IF s.bucket > 0
         THEN [applyRendererPixelRatio(c, [s EXCEPT !.bucket = @ - 1])
                  EXCEPT !.last = t]
    ELSE IF s.tier > 0
         THEN [applyEffectQuality(c, [s EXCEPT !.tier = @ - 1])
                  EXCEPT !.last = t]
    ELSE IF s.cap < g.capMax
         THEN [applyRendererPixelRatio(c,
                  [s EXCEPT !.cap = Min(g.capMax, s.cap + BASE_CAP_STEP)])
                  EXCEPT !.last = t]
    ELSE s

attemptUpgrade(c, g, s, t) ==
    IF t - s.last < effectiveDebounceMs(t, g.postUntil) THEN s
    ELSE IF s.bucket > 0
         THEN [applyRendererPixelRatio(c, [s EXCEPT !.bucket = @ - 1])
                  EXCEPT !.last = t]
    ELSE IF s.tier > 0
         THEN [applyEffectQuality(c, [s EXCEPT !.tier = @ - 1])
                  EXCEPT !.last = t]
    ELSE IF g.category = "desktop" /\ s.cap < g.capMax
         THEN [applyRendererPixelRatio(c,
                  [s EXCEPT !.cap = Min(g.capMax, s.cap + BASE_CAP_STEP)])
                  EXCEPT !.last = t]
    ELSE s

(***************************************************************************)
(* alpha = 1 - Math.exp(-delta / EMA_WINDOW_SECONDS) in units of 10^-5,    *)
(* tabulated for the frame deltas (ms) the exploration feeds.              *)
(***************************************************************************)
Deltas == {10, 2000, 5000}

alphaE5(d) ==
    CASE d = 0 -> 0
      [] d = 8 -> 797
      [] d = 10 -> 995
      [] d = 11 -> 1094
      [] d = 16 -> 1587
      [] d = 17 -> 1686
      [] d = 33 -> 3246
      [] d = 34 -> 3343
      [] d = 50 -> 4877
      [] d = 80 -> 7688
      [] d = 1000 -> 63212
      [] d = 1500 -> 77687
      [] d = 2000 -> 86466
      [] d = 4000 -> 98168
      [] d = 5000 -> 99326
      [] d = 5001 -> 99327

(***************************************************************************)
(* _emaFrameTime + alpha * (frameTime - _emaFrameTime), microseconds.      *)
(***************************************************************************)
scaleByAlpha(a, x) == (a * (x \div 1000)) \div 100 + (a * (x % 1000)) \div 100000

emaStep(ema, d) ==
    LET frameTime == d * 1000
        a == alphaE5(d)
    IN  IF frameTime >= ema
        THEN ema + scaleByAlpha(a, frameTime - ema)
        ELSE ema - scaleByAlpha(a, ema - frameTime)

\* emaFPS = 1 / _emaFrameTime compared with the two thresholds
emaBelowDrop(ema) == ema * PERF_FPS_DROP_THRESHOLD > 1000000
emaAtLeastRaise(ema) == ema * PERF_FPS_RAISE_THRESHOLD <= 1000000

(***************************************************************************)
(* perfAdaptiveUpdate(delta) at time t.  st = [ema, low, high, ignore, s]; *)
(* the result adds the band the frame fell in and the attempt it made.     *)
(* perfSkipSample is the early return of the first frames after a resume,  *)
(* perfFeedSample the rest of the function.                                *)
(***************************************************************************)
\* a bug: the decay of the middle band is not floored at zero
perfFeedSampleNoFloor(c, g, st, delta, t) ==
      LET ema2 == emaStep(st.ema, delta)
      IN  IF emaBelowDrop(ema2)
          THEN LET low2 == st.low + delta * 1000
               IN  IF low2 >= PERF_DEGRADE_MIN_DURATION * 1000
                   THEN [ema |-> ema2, low |-> 0, high |-> 0, ignore |-> 0,
                         s |-> attemptDegrade(c, g, st.s, t),
                         band |-> "low", attempt |-> "degrade"]
                   ELSE [ema |-> ema2, low |-> low2, high |-> 0, ignore |-> 0,
                         s |-> st.s, band |-> "low", attempt |-> "none"]
          ELSE IF emaAtLeastRaise(ema2)
          THEN LET high2 == st.high + delta * 1000
               IN  IF high2 >= PERF_UPGRADE_MIN_DURATION * 1000
                   THEN [ema |-> ema2, low |-> 0, high |-> 0, ignore |-> 0,
                         s |-> attemptUpgrade(c, g, st.s, t),
                         band |-> "high", attempt |-> "upgrade"]
                   ELSE [ema |-> ema2, low |-> 0, high |-> high2, ignore |-> 0,
                         s |-> st.s, band |-> "high", attempt |-> "none"]
          ELSE [ema |-> ema2,
                low |-> st.low - delta * ACCUM_DECAY_PER_MS,
                high |-> st.high - delta * ACCUM_DECAY_PER_MS,
                ignore |-> 0, s |-> st.s,
                band |-> "neutral", attempt |-> "none"]

\* a bug: the accumulator is cleared only when the attempt changed something
perfFeedSampleKeepOnRefusal(c, g, st, delta, t) ==
      LET ema2 == emaStep(st.ema, delta)
      IN  IF emaBelowDrop(ema2)
          THEN LET low2 == st.low + delta * 1000
                   s2 == attemptDegrade(c, g, st.s, t)
               IN  IF low2 >= PERF_DEGRADE_MIN_DURATION * 1000
                   THEN [ema |-> ema2,
                         low |-> IF s2 = st.s THEN low2 ELSE 0,
                         high |-> 0, ignore |-> 0, s |-> s2,
                         band |-> "low", attempt |-> "degrade"]
                   ELSE [ema |-> ema2, low |-> low2, high |-> 0, ignore |-> 0,
                         s |-> st.s, band |-> "low", attempt |-> "none"]
          ELSE IF emaAtLeastRaise(ema2)
          THEN LET high2 == st.high + delta * 1000
                   s2 == attemptUpgrade(c, g, st.s, t)
               IN  IF high2 >= PERF_UPGRADE_MIN_DURATION * 1000
                   THEN [ema |-> ema2, low |-> 0,
                         high |-> IF s2 = st.s THEN high2 ELSE 0,
                         ignore |-> 0, s |-> s2,
                         band |-> "high", attempt |-> "upgrade"]
                   ELSE [ema |-> ema2, low |-> 0, high |-> high2, ignore |-> 0,
                         s |-> st.s, band |-> "high", attempt |-> "none"]
          ELSE [ema |-> ema2,
                low |-> Max(0, st.low - delta * ACCUM_DECAY_PER_MS),
                high |-> Max(0, st.high - delta * ACCUM_DECAY_PER_MS),
                ignore |-> 0, s |-> st.s,
                band |-> "neutral", attempt |-> "none"]

perfFeedSample(c, g, st, delta, t) ==
      LET ema2 == emaStep(st.ema, delta)
      IN  IF emaBelowDrop(ema2)
          THEN LET low2 == st.low + delta * 1000
               IN  IF low2 >= PERF_DEGRADE_MIN_DURATION * 1000
                   THEN [ema |-> ema2, low |-> 0, high |-> 0, ignore |-> 0,
                         s |-> attemptDegrade(c, g, st.s, t),
                         band |-> "low", attempt |-> "degrade"]
                   ELSE [ema |-> ema2, low |-> low2, high |-> 0, ignore |-> 0,
                         s |-> st.s, band |-> "low", attempt |-> "none"]
          ELSE IF emaAtLeastRaise(ema2)
          THEN LET high2 == st.high + delta * 1000
               IN  IF high2 >= PERF_UPGRADE_MIN_DURATION * 1000
                   THEN [ema |-> ema2, low |-> 0, high |-> 0, ignore |-> 0,
                         s |-> attemptUpgrade(c, g, st.s, t),
                         band |-> "high", attempt |-> "upgrade"]
                   ELSE [ema |-> ema2, low |-> 0, high |-> high2, ignore |-> 0,
                         s |-> st.s, band |-> "high", attempt |-> "none"]
          ELSE [ema |-> ema2,
                low |-> Max(0, st.low - delta * ACCUM_DECAY_PER_MS),
                high |-> Max(0, st.high - delta * ACCUM_DECAY_PER_MS),
                ignore |-> 0, s |-> st.s,
                band |-> "neutral", attempt |-> "none"]

perfSkipSample(st) ==
    [ema |-> st.ema, low |-> st.low, high |-> st.high,
     ignore |-> st.ignore - 1, s |-> st.s,
     band |-> "ignored", attempt |-> "none"]

\* a bug: the ignore test lets one frame too many through the skip branch
perfAdaptiveUpdateOffByOne(c, g, st, delta, t) ==
    IF st.ignore > 1 THEN perfSkipSample(st)
    ELSE perfFeedSample(c, g, [st EXCEPT !.ignore = 0], delta, t)

perfAdaptiveUpdate(c, g, st, delta, t) ==
    IF st.ignore > 0 THEN perfSkipSample(st)
    ELSE perfFeedSample(c, g, st, delta, t)

(***************************************************************************)
(* Scroll-driven effects.  Offsets and heights are in tenths of a CSS      *)
(* pixel.  A progress value is the fraction [n, d] (d > 0) the code        *)
(* computes, kept exact.                                                   *)
(***************************************************************************)
TOTAL_SECTIONS == 3

frac(n, d) == [n |-> n, d |-> d]
fracEq(a, b) == a.n * b.d = b.n * a.d
fracLeq(a, b) == a.n * b.d <= b.n * a.d

\* Math.round(y / h) for h > 0: the nearest integer, halves upwards
roundDiv(y, h) ==
    LET t == 2 * y + h
    IN  IF t >= 0 THEN t \div (2 * h) ELSE -((-t + 2 * h - 1) \div (2 * h))

\* a bug: the offset is divided by the height of all the sections
scrollProgressOverAllSections(y, h) ==
    IF y >= h * TOTAL_SECTIONS THEN frac(1, 1) ELSE frac(y, h * TOTAL_SECTIONS)

\* Math.min(scrollY / (sectionHeight * (totalSections - 1)), 1.0)
scrollProgressFor(y, h) ==
    IF y >= h * (TOTAL_SECTIONS - 1) THEN frac(1, 1)
    ELSE frac(y, h * (TOTAL_SECTIONS - 1))

\* Math.max(0, Math.min(2, Math.round(scrollY / sectionHeight)))
targetSectionFor(y, h) == Max(0, Min(2, roundDiv(y, h)))

\* snapToSection: targetY and targetProgress
snapTargetY(k, h) == k * h
snapTargetProgress(k) == frac(k, TOTAL_SECTIONS - 1)

\* a bug: the right-hand progress is not stretched to the full range
getGlassModeForProgressRightHalf(p) ==
    IF 2 * p.n <= p.d
    THEN [splitScreen |-> TRUE, boundary |-> frac(1, 2),
          effectProgress |-> frac(2 * p.n, p.d),
          rightSideProgress |-> frac(0, 1)]
    ELSE [splitScreen |-> TRUE, boundary |-> frac(1, 2),
          effectProgress |-> frac(1, 1),
          rightSideProgress |-> frac(2 * p.n - p.d, 2 * p.d)]

getGlassModeForProgress(p) ==
    IF 2 * p.n <= p.d
    THEN [splitScreen |-> TRUE, boundary |-> frac(1, 2),
          effectProgress |-> frac(2 * p.n, p.d),
          rightSideProgress |-> frac(0, 1)]
    ELSE [splitScreen |-> TRUE, boundary |-> frac(1, 2),
          effectProgress |-> frac(1, 1),
          rightSideProgress |-> frac(2 * (2 * p.n - p.d), 2 * p.d)]

\* originalTopColor 0x1C214B and scrolledTopColor 0x0C0F21, as channel bytes
GRADIENT_TOP_ORIGINAL == <<28, 33, 75>>
GRADIENT_TOP_SCROLLED == <<12, 15, 33>>

\* updateGradientColorsForScroll: Color.lerp(scrolledTopColor, scrollProgress),
\* each channel in thousandths of a byte step (lerp does not clamp)
updateGradientColorsForScroll(p) ==
    [i \in 1..3 |->
        GRADIENT_TOP_ORIGINAL[i] * 1000
        + ((GRADIENT_TOP_SCROLLED[i] - GRADIENT_TOP_ORIGINAL[i]) * 1000 * p.n)
              \div p.d]

\* baseSaturation, in hundredths
BASE_SATURATION == -25

\* updateSaturationForScroll: baseSaturation - (scrollProgress * 0.0)
updateSaturationForScroll(p) == BASE_SATURATION - (p.n * 0) \div p.d

\* baseExposure, in ten-thousandths
BASE_EXPOSURE == 10000

\* a bug: the darkening starts at progress 0 instead of 0.5
computeExposureFromStart(p) ==
    LET t == Max(0, Min(1000, (p.n * 1000) \div p.d))
        eased == (t * t * (3000 - 2 * t)) \div 1000000
    IN  BASE_EXPOSURE - 3 * eased

\* computeExposureForScroll with baseExposure = 1.0, in ten-thousandths:
\* t = clamp((p - 0.5) / 0.5, 0, 1) in thousandths, eased = t*t*(3 - 2*t),
\* result 1 - eased * (1 - 0.7)
computeExposureForScroll(p) ==
    LET t == Max(0, Min(1000, ((2 * p.n - p.d) * 1000) \div p.d))
        eased == (t * t * (3000 - 2 * t)) \div 1000000
    IN  BASE_EXPOSURE - 3 * eased

\* the pushes that follow the glass configuration in the scroll handlers
scrollPushFor(p) ==
    [gradientTop |-> updateGradientColorsForScroll(p),
     saturation |-> updateSaturationForScroll(p),
     exposure |-> computeExposureForScroll(p)]

\* a bug: the progress update leaves the exposure to a tween of its own
scrollPushNoExposure(p) ==
    [gradientTop |-> updateGradientColorsForScroll(p),
     saturation |-> updateSaturationForScroll(p),
     exposure |-> scrollPush.exposure]

\* onUpdate of the progress tween of snapToSection
snapOnUpdatePush(p) == scrollPushFor(p)

\* Math.max(0, Math.min(1, x)) of a fraction
clamp01(p) ==
    IF p.n < 0 THEN frac(0, 1) ELSE IF p.n > p.d THEN frac(1, 1) ELSE p

\* scrollRefractionMultiplier, in tenths
SCROLL_REFRACTION_MULTIPLIER == 30

\* setReededScrollProgress(effect, scrollProgress)
setReededScrollProgress(effect, scrollProgress) ==
    IF ~effect.exists THEN effect
    ELSE [effect EXCEPT !.scrollProgress = clamp01(scrollProgress)]

\* setReededScrollRefractionMultiplier(effect, multiplier):
\* Math.max(1, multiplier || 3.0)
setReededScrollRefractionMultiplier(effect, multiplier) ==
    IF ~effect.exists THEN effect
    ELSE [effect EXCEPT !.scrollRefractionMultiplier =
             Max(10, IF multiplier = 0 THEN 30 ELSE multiplier)]

\* setReededSplitScreenMode(effect, enabled, boundary, rightSideProgress)
setReededSplitScreenMode(effect, enabled, boundary, rightSideProgress) ==
    IF ~effect.exists THEN effect
    ELSE [effect EXCEPT !.splitScreenMode = IF enabled THEN 1 ELSE 0,
                        !.splitScreenBoundary = clamp01(boundary),
                        !.rightSideProgress = clamp01(rightSideProgress)]

\* the `if (_reedEffect) { ... }` block of the scroll handlers
pushGlassMode(fx, cfg) ==
    IF ~fx.reed.exists THEN fx
    ELSE [fx EXCEPT !.reed =
             setReededSplitScreenMode(
                 setReededScrollRefractionMultiplier(
                     setReededScrollProgress(@, cfg.effectProgress),
                     SCROLL_REFRACTION_MULTIPLIER),
                 cfg.splitScreen, cfg.boundary, cfg.rightSideProgress)]

\* createReededPass followed by setReededResolution(window.innerWidth,
\* window.innerHeight)
createReededPass(w, h) ==
    setReededResolution(
        [exists |-> TRUE, resolution |-> <<1, 1>>, fluteWidthFor |-> 1,
         scrollProgress |-> frac(0, 1), scrollRefractionMultiplier |-> 30,
         splitScreenMode |-> 0, splitScreenBoundary |-> frac(1, 2),
         rightSideProgress |-> frac(0, 1), tDepth |-> "null"],
        w, h)

\* createBottomVignettePass followed by setBottomVignetteResolution at the
\* ratio pr of computeEffectivePixelRatio()
createBottomVignettePass(w, h, pr) ==
    setBottomVignetteResolution([exists |-> TRUE, resolution |-> <<1, 1>>],
                                (w * pr) \div 1000, (h * pr) \div 1000)

\* the depth pass of animate(): the render target is created on the first
\* frame and kept at renderer.getSize(), and its texture is handed to the
\* glass effect
animateDepthPass(c, fx) ==
    [fx EXCEPT !.depthRT = [exists |-> TRUE, size |-> <<c.w, c.h>>],
               !.reed = setReededDepth(@, "depthRT")]

\* no effect has been created
noEffects == [reed |-> NullEffect, vignette |-> NullEffect,
              depthRT |-> NullEffect]

\* the effects as the script creates them, for a window of w x h at ratio pr
createdEffects(w, h, pr) ==
    [reed |-> createReededPass(w, h),
     vignette |-> createBottomVignettePass(w, h, pr),
     depthRT |-> NullEffect]

\* initializeScrollEffectsFromCurrentPosition() with the page at offset y
\* and sections of height h
initScroll(h, y) ==
    /\ scrollY = y
    /\ sectionHeight = h
    /\ currentSection = roundDiv(y, h)
    /\ isScrolling = FALSE
    /\ scrollTimeout = -1
    /\ currentScrollProgress = scrollProgressFor(y, h)
    /\ glassMode = getGlassModeForProgress(scrollProgressFor(y, h))
    /\ scrollPush = scrollPushFor(scrollProgressFor(y, h))
    /\ tweens = {}
    /\ scrollToTop = -1
    /\ lastScrollOp = [op |-> "init", arg |-> y, handled |-> TRUE]

(***************************************************************************)
(* ScrollSystem (src/unnamed/part_002): wheel, keyboard and touch snapping *)
(* between panels.  Wheel and touch deltas are in pixels, times in ms.     *)
(***************************************************************************)
MOUSE_THRESHOLD == 120
TRACKPAD_THRESHOLD == 90
SKIP_THRESHOLD == 600
WHEEL_TYPE_DELTA == 40
SWIPE_MAX_TIME == 300
SWIPE_MIN_DISTANCE == 50

Abs(x) == IF x < 0 THEN -x ELSE x

\* a bug: the lock that follows a snap is not consulted
inputBlockedNoLock(ss) == ss.isAnimating \/ ss.prefersReducedMotion

\* if (this.isAnimating || this.inputLocked || this.prefersReducedMotion) return;
inputBlocked(ss) == ss.isAnimating \/ ss.inputLocked \/ ss.prefersReducedMotion

\* navigateToSection(targetSection)
navigateToSection(ss, targetSection) ==
    LET target == Max(0, Min(targetSection, ss.totalSections - 1))
    IN  IF target = ss.currentSection THEN ss
        ELSE [ss EXCEPT !.isAnimating = TRUE,
                        !.currentSection = target,
                        !.anims = @ + 1,
                        !.animsStarted = @ + 1]

\* a bug: the accumulator keeps its value after a navigation
systemHandleWheelKeepAccum(ss, deltaY) ==
    IF inputBlocked(ss) THEN ss
    ELSE LET threshold == IF Abs(deltaY) > WHEEL_TYPE_DELTA THEN MOUSE_THRESHOLD
                          ELSE TRACKPAD_THRESHOLD
             accum == ss.wheelAccumulator + deltaY
             direction == IF accum > 0 THEN 1 ELSE -1
             sectionsToMove == IF Abs(accum) >= SKIP_THRESHOLD THEN 2 ELSE 1
         IN  IF Abs(accum) >= threshold
             THEN [navigateToSection(ss, ss.currentSection
                                          + direction * sectionsToMove)
                     EXCEPT !.wheelAccumulator = accum, !.wheelTimeout = TRUE]
             ELSE [ss EXCEPT !.wheelAccumulator = accum, !.wheelTimeout = TRUE]

\* ScrollSystem.handleWheel(e) with e.deltaY = deltaY
systemHandleWheel(ss, deltaY) ==
    IF inputBlocked(ss) THEN ss
    ELSE LET threshold == IF Abs(deltaY) > WHEEL_TYPE_DELTA THEN MOUSE_THRESHOLD
                          ELSE TRACKPAD_THRESHOLD
             accum == ss.wheelAccumulator + deltaY
             direction == IF accum > 0 THEN 1 ELSE -1
             sectionsToMove == IF Abs(accum) >= SKIP_THRESHOLD THEN 2 ELSE 1
         IN  IF Abs(accum) >= threshold
             THEN [navigateToSection(ss, ss.currentSection
                                          + direction * sectionsToMove)
                     EXCEPT !.wheelAccumulator = 0, !.wheelTimeout = FALSE]
             ELSE [ss EXCEPT !.wheelAccumulator = accum, !.wheelTimeout = TRUE]

\* ScrollSystem.handleKeyboard(e) with e.key = key
systemHandleKeyboard(ss, key) ==
    IF inputBlocked(ss) THEN ss
    ELSE IF key \in {"PageDown", "ArrowDown", " "}
         THEN navigateToSection(ss, ss.currentSection + 1)
    ELSE IF key \in {"PageUp", "ArrowUp"}
         THEN navigateToSection(ss, ss.currentSection - 1)
    ELSE IF key = "Home" THEN navigateToSection(ss, 0)
    ELSE IF key = "End" THEN navigateToSection(ss, ss.totalSections - 1)
    ELSE ss

\* the touchend listener, for a swipe of deltaY pixels in deltaTime ms
systemTouchEnd(ss, deltaY, deltaTime) ==
    IF inputBlocked(ss) THEN ss
    ELSE IF deltaTime < SWIPE_MAX_TIME /\ Abs(deltaY) > SWIPE_MIN_DISTANCE
         THEN navigateToSection(ss, ss.currentSection
                                      + (IF deltaY > 0 THEN 1 ELSE -1))
    ELSE ss

\* the constructor with n panels and the reduced-motion preference r
initSystem(n, r) ==
    /\ scrollSystem = [currentSection |-> 0, totalSections |-> n,
                       wheelAccumulator |-> 0, wheelTimeout |-> FALSE,
                       isAnimating |-> FALSE, inputLocked |-> FALSE,
                       prefersReducedMotion |-> r,
                       anims |-> 0, lockTimers |-> 0, animsStarted |-> 0]
    /\ lastSysOp = [op |-> "init", arg |-> 0, pre |-> <<>>]

(***************************************************************************)
(* State seen by the operators, and its write-back.                        *)
(***************************************************************************)
curEnv == [w |-> lastCSSW, h |-> lastCSSH, dpr |-> devicePixelRatio]

curGlobals == [guardUntil |-> resumeGuardUntil,
               postUntil |-> postResumeDebounceUntil,
               category |-> deviceProfile.category,
               capMax |-> deviceProfile.baseCapMax]

curLadder == [tier |-> effectQualityLevel, bucket |-> dprBucketIndex,
              cap |-> deviceProfile.baseCapCurrent,
              last |-> lastPerfChangeTime,
              epr |-> rendererPixelRatio, applies |-> 0, fx |-> effects]

curPerf == [ema |-> emaFrameTime, low |-> lowPerfAccum, high |-> highPerfAccum,
            ignore |-> resumeIgnoreFrames, s |-> curLadder]

setLadder(s) ==
    /\ effectQualityLevel' = s.tier
    /\ dprBucketIndex' = s.bucket
    /\ deviceProfile' = [deviceProfile EXCEPT !.baseCapCurrent = s.cap]
    /\ lastPerfChangeTime' = s.last
    /\ rendererPixelRatio' = s.epr
    /\ effects' = s.fx

(***************************************************************************)
(* History, for stating the properties.  lastOp describes the operation    *)
(* that produced the current state and the state it started from; hist     *)
(* keeps the time of the last resume event, the number of frames since, and *)
(* the times of the last ladder change by anyone (changeAt) and by         *)
(* attemptDegrade / attemptUpgrade (ctlChangeAt; the script's load time    *)
(* until the first one).                                                   *)
(***************************************************************************)
ladderDiffers(s) ==
    \/ s.tier # effectQualityLevel
    \/ s.bucket # dprBucketIndex
    \/ s.cap # deviceProfile.baseCapCurrent

opRecord(name, arg, band, attempt, post) ==
    [op |-> name, arg |-> arg, band |-> band, attempt |-> attempt,
     at |-> now, pre |-> curPerf, applies |-> post.applies,
     guardUntil |-> resumeGuardUntil, postUntil |-> postResumeDebounceUntil,
     prevChangeAt |-> hist.changeAt, prevCtlChangeAt |-> hist.ctlChangeAt]

histAfter(post, isResume, isFrame, byController) ==
    [resumedAt |-> IF isResume THEN now ELSE hist.resumedAt,
     framesSinceResume |-> IF isResume THEN 0
                           ELSE IF isFrame THEN hist.framesSinceResume + 1
                           ELSE hist.framesSinceResume,
     changeAt |-> IF ladderDiffers(post) THEN now ELSE hist.changeAt,
     ctlChangeAt |-> IF byController /\ ladderDiffers(post) THEN now
                     ELSE hist.ctlChangeAt]

(***************************************************************************)
(* The environments explored: the inputs of detectDeviceProfile, the       *)
(* window sizes, the frame deltas and the arguments of the                 *)
(* window.__perfDebug overrides.                                           *)
(***************************************************************************)
baseEnv == [uaMobile |-> FALSE, uaIPhone |-> FALSE, uaTablet |-> FALSE,
            pointerCoarse |-> FALSE, uaMac |-> FALSE, vendorApple |-> FALSE,
            gpuInNavigator |-> FALSE, uaArm |-> FALSE,
            screenW |-> 1920, screenH |-> 1200, cores |-> 8, dpr |-> 200]

desktopEnv == baseEnv
largeDesktopEnv == [baseEnv EXCEPT !.screenW = 3008, !.screenH = 1692]
phoneEnv == [baseEnv EXCEPT !.uaMobile = TRUE, !.pointerCoarse = TRUE,
                            !.screenW = 390, !.screenH = 844, !.cores = 4,
                            !.dpr = 300]
fanlessEnv == [baseEnv EXCEPT !.uaMac = TRUE, !.vendorApple = TRUE,
                              !.gpuInNavigator = TRUE,
                              !.screenW = 1728, !.screenH = 1117]
tabletEnv == [baseEnv EXCEPT !.screenW = 1024, !.screenH = 1366]

\* <<environment, window size at load>>
Setups == { <<desktopEnv, <<1280, 720>> >>,
            <<desktopEnv, <<2560, 1400>> >>,
            <<largeDesktopEnv, <<3840, 2160>> >>,
            <<phoneEnv, <<390, 844>> >>,
            <<fanlessEnv, <<1280, 720>> >>,
            <<tabletEnv, <<1280, 720>> >> }

Viewports == { <<1280, 720>>, <<3840, 2160>> }

ForceIndices == {-1, 7}
BaseCapInputs == {40, 170, 300}

(***************************************************************************)
(* State after the script has run: detectDeviceProfile(), the module-level *)
(* initialisers, handleResize() (which only schedules its callback) and    *)
(* the set-up call of _applyRendererPixelRatio().                          *)
(*                                                                         *)
(* freshStart is that state.  steadyFast is the state the same page is in  *)
(* 6.2 s later when every frame so far took 10 ms and no event arrived     *)
(* (620 Tick(10)/Frame steps from freshStart: the EMA enters the upgrade   *)
(* band at frame 22 and the high accumulator then gains 10 ms per frame);  *)
(* it lets a run begin one frame before an upgrade attempt.                *)
(***************************************************************************)
freshStart == [now |-> 0, ema |-> EMA_INITIAL, high |-> 0]
steadyFast == [now |-> 6200, ema |-> 10100, high |-> 5990000]

\* the script's own handleResize() call has scheduled one callback
resizeLogAtStart == [sinceHandled |-> 1, bursts |-> 1, handlings |-> 0,
                     coalesced |-> 0]

\* the effects once the script, its own first animate() call and
\* initializeScrollEffectsFromCurrentPosition() at progress p have run
effectsAtStart(c, fx, p) ==
    pushGlassMode(animateDepthPass(c, fx), getGlassModeForProgress(p))

InitWith(e, v, k, created) ==
        LET prof == detectDeviceProfile(e)
            c0 == [w |-> v[1], h |-> v[2], dpr |-> e.dpr]
            s0 == applyRendererPixelRatio(c0,
                      [tier |-> 0, bucket |-> 0, cap |-> prof.baseCapCurrent,
                       last |-> 0, epr |-> 1000, applies |-> 0,
                       fx |-> IF created
                              THEN createdEffects(v[1], v[2],
                                       currentTargetPixelRatio(
                                           prof.baseCapCurrent, 0, e.dpr))
                              ELSE noEffects])
            fx0 == IF created
                   THEN effectsAtStart(c0, s0.fx,
                                       scrollProgressFor(0, v[2] * 10))
                   ELSE noEffects
        IN  /\ deviceProfile = prof
            /\ effects = fx0
            /\ devicePixelRatio = e.dpr
            /\ dprBucketIndex = s0.bucket
            /\ effectQualityLevel = 0
            /\ emaFrameTime = k.ema
            /\ lastPerfChangeTime = 0
            /\ lowPerfAccum = 0
            /\ highPerfAccum = k.high
            /\ lastCSSW = v[1]
            /\ lastCSSH = v[2]
            /\ resumeGuardUntil = 0
            /\ resumeIgnoreFrames = 0
            /\ postResumeDebounceUntil = 0
            /\ rendererPixelRatio = s0.epr
            /\ now = k.now
            /\ clockOldTime = k.now
            /\ viewport = v
            /\ resizeRAF = 1
            /\ rafQueue = 1
            /\ resizeLog = resizeLogAtStart
            /\ initScroll(v[2] * 10, 0)
            /\ initSystem(TOTAL_SECTIONS, FALSE)
            /\ frames = 0
            /\ events = 0
            /\ hist = [resumedAt |-> -1, framesSinceResume |-> 0,
                       changeAt |-> -1, ctlChangeAt |-> 0]
            /\ lastOp = [op |-> "init", arg |-> 0, band |-> "none",
                         attempt |-> "none", at |-> k.now,
                         pre |-> [ema |-> k.ema, low |-> 0, high |-> k.high,
                                  ignore |-> 0,
                                  s |-> [tier |-> 0, bucket |-> s0.bucket,
                                         cap |-> prof.baseCapCurrent, last |-> 0,
                                         epr |-> s0.epr, applies |-> 0,
                                         fx |-> fx0]],
                         applies |-> s0.applies,
                         guardUntil |-> 0, postUntil |-> 0,
                         prevChangeAt |-> -1, prevCtlChangeAt |-> 0]

InitAt(e, v, k) == InitWith(e, v, k, TRUE)

Init == \E su \in Setups, k \in {freshStart, steadyFast} :
            InitAt(su[1], su[2], k)

perfState == <<emaFrameTime, lowPerfAccum, highPerfAccum, resumeIgnoreFrames>>
ladderCore == <<deviceProfile, dprBucketIndex, effectQualityLevel,
                lastPerfChangeTime, rendererPixelRatio>>
ladderState == <<ladderCore, effects>>
guardState == <<resumeGuardUntil, postResumeDebounceUntil>>
cssState == <<lastCSSW, lastCSSH>>
resizeState == <<viewport, resizeRAF, rafQueue, resizeLog>>
scrollState == <<scrollY, sectionHeight, currentSection, isScrolling,
                 scrollTimeout, currentScrollProgress, glassMode, tweens,
                 scrollToTop, lastScrollOp, scrollPush>>
systemState == <<scrollSystem, lastSysOp>>

\* one more browser event, override or direct call, within the bound of the run
countEvent(limit) == events < limit /\ events' = events + 1

(***************************************************************************)
(* Time passes until the next animation frame: performance.now() advances  *)
(* by d ms while `clock` keeps the time of its last getDelta().            *)
(***************************************************************************)
Tick(d, limit) ==
    /\ now = clockOldTime
    /\ frames < limit
    /\ now' = now + d
    /\ lastOp' = opRecord("tick", d, "none", "none", curLadder)
    /\ UNCHANGED <<scrollState, systemState>>
    /\ UNCHANGED <<perfState, ladderState, guardState, cssState, resizeState,
                   devicePixelRatio, clockOldTime, frames, events, hist>>

(***************************************************************************)
(* animate(): delta = clock.getDelta(); perfAdaptiveUpdate(delta).         *)
(***************************************************************************)
Frame ==
    /\ now > clockOldTime
    /\ LET delta == now - clockOldTime
           r == perfAdaptiveUpdate(curEnv, curGlobals, curPerf, delta, now)
       IN  /\ emaFrameTime' = r.ema
           /\ lowPerfAccum' = r.low
           /\ highPerfAccum' = r.high
           /\ resumeIgnoreFrames' = r.ignore
           /\ setLadder([r.s EXCEPT !.fx = animateDepthPass(curEnv, @)])
           /\ lastOp' = opRecord("frame", delta, r.band, r.attempt, r.s)
           /\ hist' = histAfter(r.s, FALSE, TRUE, TRUE)
    /\ clockOldTime' = now
    /\ frames' = frames + 1
    /\ UNCHANGED <<scrollState, systemState>>
    /\ UNCHANGED <<guardState, cssState, resizeState, devicePixelRatio, now,
                   events>>

(***************************************************************************)
(* _triggerResumeGuard(): visibilitychange to visible, focus, pageshow.    *)
(***************************************************************************)
\* a bug: the resume event re-arms the guard only the first time
triggerResumeGuardOnce(limit) ==
    /\ countEvent(limit)
    /\ resumeGuardUntil' = IF resumeGuardUntil = 0 THEN now + RESUME_GUARD_MS
                           ELSE resumeGuardUntil
    /\ resumeIgnoreFrames' = RESUME_IGNORE_FRAMES
    /\ postResumeDebounceUntil' = now + POST_RESUME_DEBOUNCE_MS
    /\ emaFrameTime' = EMA_INITIAL
    /\ lowPerfAccum' = 0
    /\ highPerfAccum' = 0
    /\ lastPerfChangeTime' = now
    /\ lastOp' = opRecord("resume", 0, "none", "none", curLadder)
    /\ hist' = histAfter(curLadder, TRUE, FALSE, FALSE)
    /\ UNCHANGED <<scrollState, systemState>>
    /\ UNCHANGED <<deviceProfile, dprBucketIndex, effectQualityLevel,
                   rendererPixelRatio, effects, cssState, resizeState,
                   devicePixelRatio, now, clockOldTime, frames>>

triggerResumeGuard(limit) ==
    /\ countEvent(limit)
    /\ resumeGuardUntil' = now + RESUME_GUARD_MS
    /\ resumeIgnoreFrames' = RESUME_IGNORE_FRAMES
    /\ postResumeDebounceUntil' = now + POST_RESUME_DEBOUNCE_MS
    /\ emaFrameTime' = EMA_INITIAL
    /\ lowPerfAccum' = 0
    /\ highPerfAccum' = 0
    /\ lastPerfChangeTime' = now
    /\ lastOp' = opRecord("resume", 0, "none", "none", curLadder)
    /\ hist' = histAfter(curLadder, TRUE, FALSE, FALSE)
    /\ UNCHANGED <<scrollState, systemState>>
    /\ UNCHANGED <<deviceProfile, dprBucketIndex, effectQualityLevel,
                   rendererPixelRatio, effects, cssState, resizeState,
                   devicePixelRatio, now, clockOldTime, frames>>

(***************************************************************************)
(* A resize / orientationchange / visualViewport resize event: the         *)
(* viewport has its new size and handleResize() schedules the callback     *)
(* unless one is pending.                                                  *)
(***************************************************************************)
\* a bug: every event schedules a callback of its own
scheduleResizeFrameAlways(raf, q) == [raf |-> 1, q |-> q + 1]

\* if (resizeRAF) return; resizeRAF = requestAnimationFrame(...)
scheduleResizeFrame(raf, q) ==
    IF raf # 0 THEN [raf |-> raf, q |-> q] ELSE [raf |-> 1, q |-> q + 1]

handleResize(v, limit) ==
    /\ countEvent(limit)
    /\ viewport' = v
    /\ resizeRAF' = scheduleResizeFrame(resizeRAF, rafQueue).raf
    /\ rafQueue' = scheduleResizeFrame(resizeRAF, rafQueue).q
    /\ resizeLog' = [resizeLog EXCEPT
                        !.sinceHandled = @ + 1,
                        !.bursts = IF resizeRAF = 0 THEN @ + 1 ELSE @]
    /\ lastOp' = opRecord("resizeEvent", 0, "none", "none", curLadder)
    /\ UNCHANGED <<scrollState, systemState>>
    /\ UNCHANGED <<perfState, ladderState, guardState, cssState,
                   devicePixelRatio, now, clockOldTime, frames, hist>>

\* cssH of the requestAnimationFrame callback of handleResize
oversizedCssH(vw, vh) ==
    LET isPortrait == vh >= vw
        isPhonePortrait == isPortrait /\ vw < 500
        isTabletPortrait == isPortrait /\ vw >= 500 /\ vw <= 1100
    IN  IF isPhonePortrait THEN (vh * 115) \div 100
        ELSE IF isTabletPortrait THEN (vh * 108) \div 100
        ELSE vh

\* the pushes of the callback that follow resizeRendererAndComposer; epr is
\* resizeRendererAndComposer._epr
resizePushes(fx, vw, cssH, epr) ==
    [fx EXCEPT
        !.reed = IF @.exists THEN setReededResolution(@, vw, cssH) ELSE @,
        !.vignette = IF @.exists
                     THEN setBottomVignetteResolution(@,
                              (vw * (IF epr = 0 THEN 1000 ELSE epr)) \div 1000,
                              (cssH * (IF epr = 0 THEN 1000 ELSE epr)) \div 1000)
                     ELSE @,
        !.depthRT = IF @.exists THEN [@ EXCEPT !.size = <<vw, cssH>>] ELSE @]

\* resizeRendererAndComposer(renderer, composer, w, h)
resizeRendererAndComposer(dpr, s, w, h) ==
    LET c == [w |-> w, h |-> h, dpr |-> dpr]
    IN  enforcePixelBudget(c, applyRendererPixelRatio(c, s))

handleResizeCallback ==
    /\ rafQueue > 0
    /\ rafQueue' = rafQueue - 1
    /\ resizeRAF' = 0
    /\ resizeLog' = [resizeLog EXCEPT !.sinceHandled = 0,
                                      !.handlings = @ + 1,
                                      !.coalesced = resizeLog.sinceHandled]
    /\ LET vw == viewport[1]
           cssH == oversizedCssH(viewport[1], viewport[2])
           s2 == resizeRendererAndComposer(devicePixelRatio, curLadder, vw, cssH)
       IN  /\ lastCSSW' = vw
           /\ lastCSSH' = cssH
           /\ setLadder([s2 EXCEPT !.fx = resizePushes(@, vw, cssH, s2.epr)])
           /\ lastOp' = opRecord("resize", 0, "none", "none", s2)
           /\ hist' = histAfter(s2, FALSE, FALSE, FALSE)
    /\ UNCHANGED <<scrollState, systemState>>
    /\ UNCHANGED <<perfState, guardState, viewport, devicePixelRatio,
                   now, clockOldTime, frames, events>>

(***************************************************************************)
(* window.__perfDebug.forceBucket(i), forceTier(i), setBaseCap(v).         *)
(***************************************************************************)
forceBucket(i) ==
    /\ countEvent(MaxEvents)
    /\ LET s2 == applyRendererPixelRatio(curEnv,
                    [curLadder EXCEPT !.bucket = Min(Max(0, i), Len(DPR_BUCKETS) - 1)])
       IN  /\ setLadder(s2)
           /\ lastOp' = opRecord("forceBucket", i, "none", "none", s2)
           /\ hist' = histAfter(s2, FALSE, FALSE, FALSE)
    /\ UNCHANGED <<scrollState, systemState>>
    /\ UNCHANGED <<perfState, guardState, cssState, resizeState,
                   devicePixelRatio, now, clockOldTime, frames>>

\* a bug: the index is stored without clamping it to the table
forceTierUnclamped(i) ==
    /\ countEvent(MaxEvents)
    /\ LET s2 == [curLadder EXCEPT !.tier = i]
       IN  /\ setLadder(s2)
           /\ lastOp' = opRecord("forceTier", i, "none", "none", s2)
           /\ hist' = histAfter(s2, FALSE, FALSE, FALSE)
    /\ UNCHANGED <<scrollState, systemState>>
    /\ UNCHANGED <<perfState, guardState, cssState, resizeState,
                   devicePixelRatio, now, clockOldTime, frames>>

forceTier(i) ==
    /\ countEvent(MaxEvents)
    /\ LET s2 == applyEffectQuality(curEnv, [curLadder EXCEPT
                    !.tier = Min(Max(0, i), Len(EFFECT_QUALITY_LEVELS) - 1)])
       IN  /\ setLadder(s2)
           /\ lastOp' = opRecord("forceTier", i, "none", "none", s2)
           /\ hist' = histAfter(s2, FALSE, FALSE, FALSE)
    /\ UNCHANGED <<scrollState, systemState>>
    /\ UNCHANGED <<perfState, guardState, cssState, resizeState,
                   devicePixelRatio, now, clockOldTime, frames>>

setBaseCap(v) ==
    /\ countEvent(MaxEvents)
    /\ LET s2 == applyRendererPixelRatio(curEnv,
                    [curLadder EXCEPT !.cap = Min(Max(50, v), deviceProfile.baseCapMax)])
       IN  /\ setLadder(s2)
           /\ lastOp' = opRecord("setBaseCap", v, "none", "none", s2)
           /\ hist' = histAfter(s2, FALSE, FALSE, FALSE)
    /\ UNCHANGED <<scrollState, systemState>>
    /\ UNCHANGED <<perfState, guardState, cssState, resizeState,
                   devicePixelRatio, now, clockOldTime, frames>>

(***************************************************************************)
(* The whole page: frames, browser events and the debug overrides.         *)
(***************************************************************************)
Next ==
    \/ \E d \in Deltas : Tick(d, MaxFrames)
    \/ Frame
    \/ triggerResumeGuard(MaxEvents)
    \/ \E v \in Viewports : handleResize(v, MaxEvents)
    \/ handleResizeCallback
    \/ \E i \in ForceIndices : forceBucket(i)
    \/ \E i \in ForceIndices : forceTier(i)
    \/ \E v \in BaseCapInputs : setBaseCap(v)

Spec == Init /\ [][Next]_vars

(***************************************************************************)
(* The page without the debug console: frames, resume events and resizes.  *)
(***************************************************************************)
NextPage ==
    \/ \E d \in Deltas : Tick(d, MaxFrames)
    \/ Frame
    \/ triggerResumeGuard(MaxPageEvents)
    \/ \E v \in Viewports : handleResize(v, MaxPageEvents)
    \/ handleResizeCallback

SpecPage == Init /\ [][NextPage]_vars

(***************************************************************************)
(* attemptDegrade(now) and attemptUpgrade(now) called on their own, as a   *)
(* unit test of the two functions does, between frames and resume events.  *)
(***************************************************************************)
callAttemptDegrade ==
    /\ countEvent(MaxCallEvents)
    /\ LET s2 == attemptDegrade(curEnv, curGlobals, curLadder, now)
       IN  /\ setLadder(s2)
           /\ lastOp' = opRecord("callDegrade", 0, "none", "degrade", s2)
           /\ hist' = histAfter(s2, FALSE, FALSE, TRUE)
    /\ UNCHANGED <<scrollState, systemState>>
    /\ UNCHANGED <<perfState, guardState, cssState, resizeState,
                   devicePixelRatio, now, clockOldTime, frames>>

callAttemptUpgrade ==
    /\ countEvent(MaxCallEvents)
    /\ LET s2 == attemptUpgrade(curEnv, curGlobals, curLadder, now)
       IN  /\ setLadder(s2)
           /\ lastOp' = opRecord("callUpgrade", 0, "none", "upgrade", s2)
           /\ hist' = histAfter(s2, FALSE, FALSE, TRUE)
    /\ UNCHANGED <<scrollState, systemState>>
    /\ UNCHANGED <<perfState, guardState, cssState, resizeState,
                   devicePixelRatio, now, clockOldTime, frames>>

CallDeltas == {1500, 2000, 5000}

NextCalls ==
    \/ \E d \in CallDeltas : Tick(d, MaxFrames)
    \/ Frame
    \/ triggerResumeGuard(MaxCallEvents)
    \/ callAttemptDegrade
    \/ callAttemptUpgrade

SpecCalls == Init /\ [][NextCalls]_vars

(***************************************************************************)
(* A long run of frames around resume events.                              *)
(***************************************************************************)
ResumeDeltas == {10, 5000}

NextResume ==
    \/ \E d \in ResumeDeltas : now + d <= MaxResumeTime /\ Tick(d, MaxResumeFrames)
    \/ Frame
    \/ triggerResumeGuard(MaxResumes)

InitResume == InitAt(phoneEnv, <<390, 844>>, freshStart)

SpecResume == InitResume /\ [][NextResume]_vars

(***************************************************************************)
(* enforcePixelBudget() and _applyRendererPixelRatio() on their own, from   *)
(* any ladder state, CSS size and native ratio.  These are the states the  *)
(* functions are entered in: the resize callback has stored a new CSS size *)
(* before it calls them, and window.devicePixelRatio is read on every call *)
(* and may have changed (zoom, another monitor) since the caps were set.   *)
(* lastOp.arg of an enforcePixelBudget call counts the calls in succession. *)
(***************************************************************************)
BudgetSizes == { <<1280, 720>>, <<2560, 1400>>, <<3840, 2160>>, <<5120, 2880>> }
BudgetCaps == {50, 118, 155, 165, 175}
BudgetRatios == {0, 100, 155, 200}
BudgetTiers == {0, 3}

InitBudget ==
    \E v \in BudgetSizes, cap \in BudgetCaps, r \in BudgetRatios,
       b \in 0..(Len(DPR_BUCKETS) - 1), q \in BudgetTiers :
        LET prof == [detectDeviceProfile(desktopEnv) EXCEPT !.baseCapCurrent = cap]
            c0 == [w |-> v[1], h |-> v[2], dpr |-> r]
            s0 == [tier |-> q, bucket |-> b, cap |-> cap, last |-> 0,
                   epr |-> 1000, applies |-> 0,
                   fx |-> effectsAtStart(c0,
                              applyEffectQuality(c0,
                                  [tier |-> q,
                                   fx |-> createdEffects(v[1], v[2], 1000)]).fx,
                              scrollProgressFor(0, v[2] * 10))]
        IN  /\ deviceProfile = prof
            /\ effects = s0.fx
            /\ devicePixelRatio = r
            /\ dprBucketIndex = b
            /\ effectQualityLevel = q
            /\ emaFrameTime = EMA_INITIAL
            /\ lastPerfChangeTime = 0
            /\ lowPerfAccum = 0
            /\ highPerfAccum = 0
            /\ lastCSSW = v[1]
            /\ lastCSSH = v[2]
            /\ resumeGuardUntil = 0
            /\ resumeIgnoreFrames = 0
            /\ postResumeDebounceUntil = 0
            /\ rendererPixelRatio = 1000
            /\ now = 0
            /\ clockOldTime = 0
            /\ viewport = v
            /\ resizeRAF = 0
            /\ rafQueue = 0
            /\ resizeLog = [resizeLogAtStart EXCEPT !.sinceHandled = 0,
                                                     !.bursts = 0]
            /\ initScroll(v[2] * 10, 0)
            /\ initSystem(TOTAL_SECTIONS, FALSE)
            /\ frames = 0
            /\ events = 0
            /\ hist = [resumedAt |-> -1, framesSinceResume |-> 0,
                       changeAt |-> -1, ctlChangeAt |-> 0]
            /\ lastOp = [op |-> "init", arg |-> 0, band |-> "none",
                         attempt |-> "none", at |-> 0,
                         pre |-> [ema |-> EMA_INITIAL, low |-> 0, high |-> 0,
                                  ignore |-> 0, s |-> s0],
                         applies |-> 0,
                         guardUntil |-> 0, postUntil |-> 0,
                         prevChangeAt |-> -1, prevCtlChangeAt |-> 0]

callEnforcePixelBudget ==
    /\ countEvent(MaxBudgetCalls)
    /\ LET s2 == enforcePixelBudget(curEnv, curLadder)
       IN  /\ setLadder(s2)
           /\ lastOp' = opRecord("enforce",
                                 IF lastOp.op = "enforce" THEN lastOp.arg + 1 ELSE 1,
                                 "none", "none", s2)
           /\ hist' = histAfter(s2, FALSE, FALSE, FALSE)
    /\ UNCHANGED <<scrollState, systemState>>
    /\ UNCHANGED <<perfState, guardState, cssState, resizeState,
                   devicePixelRatio, now, clockOldTime, frames>>

callApplyRendererPixelRatio ==
    /\ countEvent(MaxBudgetCalls)
    /\ LET s2 == applyRendererPixelRatio(curEnv, curLadder)
       IN  /\ setLadder(s2)
           /\ lastOp' = opRecord("apply", 0, "none", "none", s2)
           /\ hist' = histAfter(s2, FALSE, FALSE, FALSE)
    /\ UNCHANGED <<scrollState, systemState>>
    /\ UNCHANGED <<perfState, guardState, cssState, resizeState,
                   devicePixelRatio, now, clockOldTime, frames>>

NextBudget ==
    \/ callEnforcePixelBudget
    \/ callApplyRendererPixelRatio

SpecBudget == InitBudget /\ [][NextBudget]_vars

(***************************************************************************)
(* A constant 30 fps from the load of the page, with no event: three       *)
(* frames every 100 ms (33, 33 and 34 ms on the millisecond clock).        *)
(***************************************************************************)
thirtyFpsDelta == IF frames % 3 = 2 THEN 34 ELSE 33

NextThirty ==
    \/ Tick(thirtyFpsDelta, MaxThirtyFrames)
    \/ Frame

InitThirty == \E su \in Setups : InitAt(su[1], su[2], freshStart)

SpecThirty == InitThirty /\ [][NextThirty]_vars

(***************************************************************************)
(* detectDeviceProfile() over the combinations of what it reads, followed  *)
(* by the operations that write baseCapCurrent.  A user agent that matches *)
(* /iphone/ also matches /mobi|iphone|android/.                            *)
(***************************************************************************)
ProfileScreens == { <<390, 844>>, <<1024, 1366>>, <<1920, 1200>>, <<3008, 1692>> }
ProfileCores == {4, 6, 8}
ProfileRatios == {0, 50, 150, 200, 300}

ProfileEnvs ==
    { [uaMobile |-> f[1], uaIPhone |-> f[2], uaTablet |-> f[3],
       pointerCoarse |-> f[4], uaMac |-> f[5], vendorApple |-> f[6],
       gpuInNavigator |-> f[7], uaArm |-> f[8],
       screenW |-> sc[1], screenH |-> sc[2], cores |-> n, dpr |-> r] :
         f \in { g \in [1..8 -> BOOLEAN] : g[2] => g[1] },
         sc \in ProfileScreens, n \in ProfileCores, r \in ProfileRatios }

InitProfile == \E e \in ProfileEnvs : InitAt(e, <<1280, 720>>, steadyFast)

NextProfile ==
    \/ \E d \in {10} : Tick(d, MaxProfileFrames)
    \/ Frame
    \/ \E v \in BaseCapInputs : setBaseCap(v)

SpecProfile == InitProfile /\ [][NextProfile]_vars

(***************************************************************************)
(* The scroll handlers: the 'scroll' and 'wheel' listeners, the two timers *)
(* they start and the onUpdate callback of the progress tween that         *)
(* snapToSection starts.  The page may have been loaded at any offset.     *)
(***************************************************************************)
pageState == <<perfState, ladderState, guardState, cssState, resizeState,
               devicePixelRatio, now, clockOldTime, frames, events, lastOp, hist>>

SectionHeights == {7200, 8445, 10805}
ScrollOffsets == {-50, 0, 3599, 3600, 10800, 30000}
ProgressSamples == { frac(1, 10), frac(1, 4), frac(1, 2), frac(3, 4) }

\* snapToSection(k): scroll smoothly to the section and tween the progress
snapToSection(k) ==
    /\ scrollToTop' = snapTargetY(k, sectionHeight)
    /\ currentSection' = k
    /\ tweens' = tweens \cup {[from |-> currentScrollProgress, to |-> k]}

\* a 'scroll' event with the window at offset y
handleScroll(y) ==
    /\ events < MaxScrollEvents
    /\ scrollY' = y
    /\ IF isScrolling
       THEN UNCHANGED <<currentScrollProgress, glassMode, scrollPush,
                        scrollTimeout, effects>>
       ELSE /\ currentScrollProgress' = scrollProgressFor(y, sectionHeight)
            /\ glassMode' = getGlassModeForProgress(
                                scrollProgressFor(y, sectionHeight))
            /\ scrollPush' = scrollPushFor(scrollProgressFor(y, sectionHeight))
            /\ effects' = pushGlassMode(effects,
                              getGlassModeForProgress(
                                  scrollProgressFor(y, sectionHeight)))
            /\ scrollTimeout' = targetSectionFor(y, sectionHeight)
    /\ lastScrollOp' = [op |-> "scroll", arg |-> y, handled |-> ~isScrolling]
    /\ events' = events + 1
    /\ UNCHANGED <<sectionHeight, currentSection, isScrolling, tweens,
                   scrollToTop>>
    /\ UNCHANGED <<perfState, ladderCore, guardState, cssState, resizeState,
                   devicePixelRatio, now, clockOldTime, frames, lastOp, hist,
                   systemState>>

\* the 150 ms timer set by handleScroll
scrollTimeoutFires ==
    /\ scrollTimeout # -1
    /\ scrollTimeout' = -1
    /\ IF scrollTimeout # currentSection
       THEN snapToSection(scrollTimeout)
       ELSE UNCHANGED <<scrollToTop, currentSection, tweens>>
    /\ lastScrollOp' = [op |-> "timeout", arg |-> scrollTimeout, handled |-> TRUE]
    /\ UNCHANGED <<scrollY, sectionHeight, isScrolling, currentScrollProgress,
                   glassMode, scrollPush>>
    /\ UNCHANGED <<pageState, systemState>>

\* a 'wheel' event with deltaY of sign dir
handleWheel(dir) ==
    /\ events < MaxScrollEvents
    /\ ~isScrolling
    /\ LET targetSection ==
               IF dir > 0 /\ currentSection < 2 THEN currentSection + 1
               ELSE IF dir < 0 /\ currentSection > 0 THEN currentSection - 1
               ELSE currentSection
       IN  /\ IF targetSection # currentSection
              THEN isScrolling' = TRUE /\ snapToSection(targetSection)
              ELSE UNCHANGED <<isScrolling, scrollToTop, currentSection, tweens>>
           /\ lastScrollOp' = [op |-> "wheel", arg |-> dir,
                               handled |-> targetSection # currentSection]
    /\ events' = events + 1
    /\ UNCHANGED <<scrollY, sectionHeight, scrollTimeout, currentScrollProgress,
                   glassMode, scrollPush>>
    /\ UNCHANGED <<perfState, ladderState, guardState, cssState, resizeState,
                   devicePixelRatio, now, clockOldTime, frames, lastOp, hist,
                   systemState>>

\* the 1000 ms timer set by handleWheel
scrollUnlock ==
    /\ isScrolling
    /\ isScrolling' = FALSE
    /\ lastScrollOp' = [op |-> "unlock", arg |-> 0, handled |-> TRUE]
    /\ UNCHANGED <<scrollY, sectionHeight, currentSection, scrollTimeout,
                   currentScrollProgress, glassMode, tweens, scrollToTop,
                   scrollPush>>
    /\ UNCHANGED <<pageState, systemState>>

\* p lies between the start and the end of the tween
tweenReaches(tw, p) ==
    \/ fracLeq(tw.from, p) /\ fracLeq(p, snapTargetProgress(tw.to))
    \/ fracLeq(snapTargetProgress(tw.to), p) /\ fracLeq(p, tw.from)

\* onUpdate of a progress tween; the update that delivers the end value is
\* its last
tweenUpdate(tw, p) ==
    /\ tw \in tweens
    /\ tweenReaches(tw, p)
    /\ currentScrollProgress' = p
    /\ glassMode' = getGlassModeForProgress(p)
    /\ scrollPush' = snapOnUpdatePush(p)
    /\ effects' = pushGlassMode(effects, getGlassModeForProgress(p))
    /\ tweens' = IF fracEq(p, snapTargetProgress(tw.to)) THEN tweens \ {tw}
                 ELSE tweens
    /\ lastScrollOp' = [op |-> "tween", arg |-> tw.to, handled |-> TRUE]
    /\ UNCHANGED <<scrollY, sectionHeight, currentSection, isScrolling,
                   scrollTimeout, scrollToTop>>
    /\ UNCHANGED <<perfState, ladderCore, guardState, cssState, resizeState,
                   devicePixelRatio, now, clockOldTime, frames, events, lastOp,
                   hist, systemState>>

NextScroll ==
    \/ \E y \in (ScrollOffsets \cup {scrollToTop}) \ {-1} : handleScroll(y)
    \/ scrollTimeoutFires
    \/ \E dir \in {-1, 1} : handleWheel(dir)
    \/ scrollUnlock
    \/ \E tw \in tweens :
         \E p \in ProgressSamples \cup {snapTargetProgress(tw.to)} :
            tweenUpdate(tw, p)

InitScroll ==
    \E h \in SectionHeights, y \in ScrollOffsets \ {-50} :
        \E prof \in {detectDeviceProfile(desktopEnv)} :
            /\ initScroll(h, y)
            /\ initSystem(TOTAL_SECTIONS, FALSE)
            /\ deviceProfile = prof
            /\ devicePixelRatio = desktopEnv.dpr
            /\ dprBucketIndex = 0
            /\ effectQualityLevel = 0
            /\ emaFrameTime = EMA_INITIAL
            /\ lastPerfChangeTime = 0
            /\ lowPerfAccum = 0
            /\ highPerfAccum = 0
            /\ lastCSSW = 1280
            /\ lastCSSH = 720
            /\ resumeGuardUntil = 0
            /\ resumeIgnoreFrames = 0
            /\ postResumeDebounceUntil = 0
            /\ rendererPixelRatio = currentTargetPixelRatio(prof.baseCapCurrent, 0,
                                                            desktopEnv.dpr)
            /\ effects = effectsAtStart(
                   [w |-> 1280, h |-> 720, dpr |-> desktopEnv.dpr],
                   createdEffects(1280, 720,
                       currentTargetPixelRatio(prof.baseCapCurrent, 0,
                                               desktopEnv.dpr)),
                   scrollProgressFor(y, h))
            /\ now = 0
            /\ clockOldTime = 0
            /\ viewport = <<1280, 720>>
            /\ resizeRAF = 1
            /\ rafQueue = 1
            /\ resizeLog = resizeLogAtStart
            /\ frames = 0
            /\ events = 0
            /\ hist = [resumedAt |-> -1, framesSinceResume |-> 0,
                       changeAt |-> -1, ctlChangeAt |-> 0]
            /\ lastOp = [op |-> "init"]

SpecScroll == InitScroll /\ [][NextScroll]_vars

(***************************************************************************)
(* Bursts of resize, orientationchange and visualViewport resize events    *)
(* (all three are bound to handleResize) and the animation-frame callback  *)
(* they schedule.  The browser runs a requested callback at the next       *)
(* frame, hence the fairness condition.                                    *)
(***************************************************************************)
ResizeViewports == { <<1280, 720>>, <<3840, 2160>>, <<390, 844>> }

NextResize ==
    \/ \E v \in ResizeViewports : handleResize(v, MaxResizeEvents)
    \/ handleResizeCallback

InitResize == \E su \in Setups : InitAt(su[1], su[2], freshStart)

\* a step in which the browser runs a queued callback: in this specification
\* these are exactly the steps of handleResizeCallback, which is enabled
\* whenever a callback is queued
resizeFrameRuns == rafQueue > 0 /\ rafQueue' = rafQueue - 1

SpecResize == InitResize /\ [][NextResize]_vars /\ WF_rafQueue(resizeFrameRuns)

(***************************************************************************)
(* The ScrollSystem instance under wheel, keyboard and touch events, its   *)
(* public goToSection, its timers and the completion of its animations.    *)
(* Without the reduced-motion preference the listeners of                  *)
(* setupEventListeners are installed; with it only the scroll listener of  *)
(* initReducedMotion is.                                                   *)
(***************************************************************************)
WheelDeltas == {-120, 30, 100, 600}
Keys == {"ArrowDown", "PageUp", "Home", "End", "a"}
Swipes == { <<80, 100>>, <<-80, 100>>, <<80, 400>>, <<20, 100>> }
PanelCounts == {2, 3}

systemStep(name, arg, ss2) ==
    /\ events < MaxSystemEvents
    /\ events' = events + 1
    /\ scrollSystem' = ss2
    /\ lastSysOp' = [op |-> name, arg |-> arg, pre |-> scrollSystem]
    /\ UNCHANGED <<perfState, ladderState, guardState, cssState, resizeState,
                   devicePixelRatio, now, clockOldTime, frames, lastOp, hist,
                   scrollState>>

systemTimer(name, ss2) ==
    /\ scrollSystem' = ss2
    /\ lastSysOp' = [op |-> name, arg |-> 0, pre |-> scrollSystem]
    /\ UNCHANGED <<pageState, scrollState>>

wheelEvent(deltaY) ==
    /\ ~scrollSystem.prefersReducedMotion
    /\ systemStep("wheel", deltaY, systemHandleWheel(scrollSystem, deltaY))

keydownEvent(key) ==
    /\ ~scrollSystem.prefersReducedMotion
    /\ systemStep("keydown", key, systemHandleKeyboard(scrollSystem, key))

touchendEvent(sw) ==
    /\ ~scrollSystem.prefersReducedMotion
    /\ systemStep("touchend", sw, systemTouchEnd(scrollSystem, sw[1], sw[2]))

goToSection(k) ==
    systemStep("goToSection", k, navigateToSection(scrollSystem, k))

\* the scroll listener of initReducedMotion with scrollTop / innerHeight
\* rounding to section
reducedMotionScroll(section) ==
    /\ scrollSystem.prefersReducedMotion
    /\ systemStep("scroll", section,
                  [scrollSystem EXCEPT !.currentSection =
                       Max(0, Min(section, scrollSystem.totalSections - 1))])

\* the accumTime timer of handleWheel
wheelTimeoutFires ==
    /\ scrollSystem.wheelTimeout
    /\ systemTimer("wheelTimeout",
                   [scrollSystem EXCEPT !.wheelAccumulator = 0,
                                        !.wheelTimeout = FALSE])

\* a bug: onComplete locks the input and never sets the timer that unlocks it
snapCompleteNoUnlock ==
    /\ scrollSystem.anims > 0
    /\ systemTimer("complete",
                   [scrollSystem EXCEPT !.anims = @ - 1,
                                        !.isAnimating = FALSE,
                                        !.inputLocked = TRUE])

\* onComplete of a snap animation
snapComplete ==
    /\ scrollSystem.anims > 0
    /\ systemTimer("complete",
                   [scrollSystem EXCEPT !.anims = @ - 1,
                                        !.isAnimating = FALSE,
                                        !.inputLocked = TRUE,
                                        !.lockTimers = @ + 1])

\* the inputLockTime timer of onComplete
inputLockExpires ==
    /\ scrollSystem.lockTimers > 0
    /\ systemTimer("unlock",
                   [scrollSystem EXCEPT !.lockTimers = @ - 1,
                                        !.inputLocked = FALSE])

NextSystem ==
    \/ \E deltaY \in WheelDeltas : wheelEvent(deltaY)
    \/ \E key \in Keys : keydownEvent(key)
    \/ \E sw \in Swipes : touchendEvent(sw)
    \/ \E k \in {0, 2} : goToSection(k)
    \/ \E k \in {-1, 1, 5} : reducedMotionScroll(k)
    \/ wheelTimeoutFires
    \/ snapComplete
    \/ inputLockExpires

InitSystem ==
    \E n \in PanelCounts, r \in BOOLEAN :
        \E prof \in {detectDeviceProfile(desktopEnv)} :
            /\ initSystem(n, r)
            /\ initScroll(7200, 0)
            /\ deviceProfile = prof
            /\ devicePixelRatio = desktopEnv.dpr
            /\ dprBucketIndex = 0
            /\ effectQualityLevel = 0
            /\ emaFrameTime = EMA_INITIAL
            /\ lastPerfChangeTime = 0
            /\ lowPerfAccum = 0
            /\ highPerfAccum = 0
            /\ lastCSSW = 1280
            /\ lastCSSH = 720
            /\ resumeGuardUntil = 0
            /\ resumeIgnoreFrames = 0
            /\ postResumeDebounceUntil = 0
            /\ rendererPixelRatio = currentTargetPixelRatio(prof.baseCapCurrent, 0,
                                                            desktopEnv.dpr)
            /\ effects = effectsAtStart(
                   [w |-> 1280, h |-> 720, dpr |-> desktopEnv.dpr],
                   createdEffects(1280, 720,
                       currentTargetPixelRatio(prof.baseCapCurrent, 0,
                                               desktopEnv.dpr)),
                   scrollProgressFor(0, 7200))
            /\ now = 0
            /\ clockOldTime = 0
            /\ viewport = <<1280, 720>>
            /\ resizeRAF = 1
            /\ rafQueue = 1
            /\ resizeLog = resizeLogAtStart
            /\ frames = 0
            /\ events = 0
            /\ hist = [resumedAt |-> -1, framesSinceResume |-> 0,
                       changeAt |-> -1, ctlChangeAt |-> 0]
            /\ lastOp = [op |-> "init"]

SpecSystem == InitSystem /\ [][NextSystem]_vars

\* gsap runs every tween to its onComplete and the browser fires every
\* pending setTimeout callback
SpecSystemFair ==
    InitSystem /\ [][NextSystem]_vars
    /\ WF_scrollSystem(snapComplete) /\ WF_scrollSystem(inputLockExpires)

(***************************************************************************)
(* The overlay setters and the handlers that use them, called both before  *)
(* and after the effects are created.                                      *)
(***************************************************************************)
SetterNames == {"setReededResolution", "setReededScrollProgress",
                "setReededScrollRefractionMultiplier",
                "setReededSplitScreenMode", "setReededDepth",
                "setBottomVignetteResolution"}

\* one call of the named setter on the page's handle
setterCall(name, fx) ==
    CASE name = "setReededResolution" ->
           [fx EXCEPT !.reed = setReededResolution(@, 640, 360)]
      [] name = "setReededScrollProgress" ->
           [fx EXCEPT !.reed = setReededScrollProgress(@, frac(3, 2))]
      [] name = "setReededScrollRefractionMultiplier" ->
           [fx EXCEPT !.reed = setReededScrollRefractionMultiplier(@, 5)]
      [] name = "setReededSplitScreenMode" ->
           [fx EXCEPT !.reed = setReededSplitScreenMode(@, TRUE, frac(1, 2),
                                                        frac(1, 4))]
      [] name = "setReededDepth" ->
           [fx EXCEPT !.reed = setReededDepth(@, "depthRT")]
      [] name = "setBottomVignetteResolution" ->
           [fx EXCEPT !.vignette = setBottomVignetteResolution(@, 640, 360)]

callSetter(name) ==
    /\ countEvent(MaxSetterCalls)
    /\ effects' = setterCall(name, effects)
    /\ lastOp' = opRecord("setter", name, "none", "none", curLadder)
    /\ UNCHANGED <<scrollState, systemState>>
    /\ UNCHANGED <<perfState, ladderCore, guardState, cssState, resizeState,
                   devicePixelRatio, now, clockOldTime, frames, hist>>

NextEffects ==
    \/ \E name \in SetterNames : callSetter(name)
    \/ \E i \in ForceIndices : forceTier(i)
    \/ \E i \in ForceIndices : forceBucket(i)
    \/ \E v \in BaseCapInputs : setBaseCap(v)
    \/ \E y \in ScrollOffsets : handleScroll(y)

InitEffects ==
    \E su \in Setups, created \in BOOLEAN :
        InitWith(su[1], su[2], freshStart, created)

SpecEffects == InitEffects /\ [][NextEffects]_vars

(***************************************************************************)
(* Frames whose smoothed rate crosses into and out of the middle band      *)
(* (55 to 65 frames per second), with one resume event.                    *)
(***************************************************************************)
NeutralDeltas == {8, 10, 34, 50, 80}

NextNeutral ==
    \/ \E d \in NeutralDeltas : Tick(d, MaxNeutralFrames)
    \/ Frame
    \/ triggerResumeGuard(MaxEvents)

SpecNeutral == Init /\ [][NextNeutral]_vars

(***************************************************************************)
(* A page that is slow for its first frames and then runs at 100 frames    *)
(* per second for good, with no resize, resume or override event.          *)
(* requestAnimationFrame keeps calling animate(), so frames keep coming    *)
(* for ever.  The controller reads the clock only in differences           *)
(* (now - _lastPerfChangeTime) and in comparisons with the guard times,    *)
(* which stay in the past without a resume; a frame is therefore recorded  *)
(* on a time axis whose origin moves with it: `now` stays put and          *)
(* _lastPerfChangeTime ages by the length of the frame, down to the        *)
(* longest debounce, beyond which its value makes no difference.  `frames` *)
(* counts the frames up to MaxSlowFrames, the last one that may be slow,   *)
(* and keeps the parity of the count after that.                           *)
(***************************************************************************)
MaxSlowFrames == 2

frameCountAfter(f) ==
    IF f < MaxSlowFrames THEN f + 1
    ELSE MaxSlowFrames + ((f - MaxSlowFrames + 1) % 2)

RecoverSetups == { <<desktopEnv, <<1280, 720>> >>,
                   <<largeDesktopEnv, <<3840, 2160>> >> }

InitRecover == \E su \in RecoverSetups : InitAt(su[1], su[2], freshStart)

\* _effectiveDebounceMs(now) at its longest
longestDebounce == PERF_CHANGE_DEBOUNCE + POST_RESUME_EXTRA_DEBOUNCE

\* animate() called d ms after the previous frame
recoverFrame(d) ==
    /\ now = clockOldTime
    /\ LET r == perfAdaptiveUpdate(curEnv, curGlobals, curPerf, d, now + d)
           aged == Max(r.s.last - d, now - longestDebounce)
       IN  /\ emaFrameTime' = r.ema
           /\ lowPerfAccum' = r.low
           /\ highPerfAccum' = r.high
           /\ resumeIgnoreFrames' = r.ignore
           /\ setLadder([r.s EXCEPT !.last = aged,
                                    !.fx = animateDepthPass(curEnv, @)])
           /\ lastOp' = opRecord("frame", d, r.band, r.attempt, r.s)
           /\ hist' = histAfter(r.s, FALSE, FALSE, TRUE)
    /\ frames' = frameCountAfter(frames)
    /\ UNCHANGED <<scrollState, systemState>>
    /\ UNCHANGED <<guardState, cssState, resizeState, devicePixelRatio, now,
                   clockOldTime, events>>

NextRecover ==
    \/ recoverFrame(10)
    \/ frames < MaxSlowFrames /\ recoverFrame(5000)

\* the steps of recoverFrame, as seen on the frame counter
frameRuns == now = clockOldTime /\ frames' = frameCountAfter(frames)

SpecRecover == InitRecover /\ [][NextRecover]_vars /\ WF_frames(frameRuns)

(***************************************************************************)
(* Frames around one resume event on a 125 Hz display: the 60 frames that  *)
(* perfAdaptiveUpdate skips after the resume take 8 ms each, the others    *)
(* 10 ms or a 4 s stall, so that a stall can fill the low accumulator      *)
(* while the resume guard is still up.  MaxRefusedFrames bounds the frames *)
(* that feed the EMA before the first resume and after each resume; the    *)
(* skipped frames come on top of it.                                       *)
(***************************************************************************)
MaxRefusedFrames == 2
RefusedDeltas == {10, 4000}

InitRefused ==
    \E k \in {freshStart, steadyFast} : InitAt(phoneEnv, <<390, 844>>, k)

\* frames that fed the EMA since the load or since the last resume
fedFrames ==
    IF hist.resumedAt < 0 THEN frames
    ELSE hist.framesSinceResume - (RESUME_IGNORE_FRAMES - resumeIgnoreFrames)

NextRefused ==
    \/ resumeIgnoreFrames > 0 /\ Tick(8, frames + 1)
    \/ resumeIgnoreFrames = 0
       /\ fedFrames < MaxRefusedFrames
       /\ \E d \in RefusedDeltas : Tick(d, frames + 1)
    \/ Frame
    \/ triggerResumeGuard(MaxResumes)

SpecRefused == InitRefused /\ [][NextRefused]_vars

(***************************************************************************)
(* Properties.  Each is a predicate on the state an operation has just     *)
(* produced: lastOp.pre is the state the operation started from.           *)
(***************************************************************************)
preLadder == lastOp.pre.s
worstTier == Len(EFFECT_QUALITY_LEVELS) - 1
worstBucket == Len(DPR_BUCKETS) - 1

tierUnchanged == effectQualityLevel = preLadder.tier
bucketUnchanged == dprBucketIndex = preLadder.bucket
capUnchanged == deviceProfile.baseCapCurrent = preLadder.cap
ladderUnchanged == tierUnchanged /\ bucketUnchanged /\ capUnchanged

\* the debounce interval has elapsed when the operation runs
debounceElapsed ==
    lastOp.at - preLadder.last >= (IF lastOp.at < lastOp.postUntil THEN 2000 ELSE 1300)

\* the frame fed the EMA, left it below 55 fps and brought the low
\* accumulator to 4000 ms
lowAccumFull ==
    /\ lastOp.op = "frame"
    /\ lastOp.pre.ignore = 0
    /\ emaFrameTime * 55 > 1000000
    /\ lastOp.pre.low + lastOp.arg * 1000 >= 4000 * 1000

\* the frame fed the EMA, left it at 65 fps or more and brought the high
\* accumulator to 6000 ms
highAccumFull ==
    /\ lastOp.op = "frame"
    /\ lastOp.pre.ignore = 0
    /\ emaFrameTime * 65 <= 1000000
    /\ lastOp.pre.high + lastOp.arg * 1000 >= 6000 * 1000

degradeDue ==
    /\ lowAccumFull
    /\ lastOp.at >= lastOp.guardUntil
    /\ debounceElapsed
    /\ ~(preLadder.tier = worstTier /\ preLadder.bucket = worstBucket)

\* C1: a frame that brings the low accumulator to 4000 ms under an EMA below
\* 55 fps, outside the resume guard and past the debounce, from a ladder
\* state above the floor, advances the ladder by exactly one step: the tier
\* if it was not the worst one, otherwise the bucket.
C1_DegradeOneStep ==
    degradeDue =>
        IF preLadder.tier < worstTier
        THEN /\ effectQualityLevel = preLadder.tier + 1
             /\ bucketUnchanged /\ capUnchanged
        ELSE /\ dprBucketIndex = preLadder.bucket + 1
             /\ tierUnchanged /\ capUnchanged

C1_Witness ==
    /\ degradeDue
    /\ lastOp.pre.low > 0
    /\ preLadder.tier = worstTier
    /\ dprBucketIndex = preLadder.bucket + 1

upgradeDue ==
    /\ highAccumFull
    /\ debounceElapsed
    /\ (preLadder.bucket > 0 \/ preLadder.tier > 0)

\* C2: a frame that brings the high accumulator to 6000 ms under an EMA of
\* at least 65 fps, past the debounce, from a ladder state with bucket > 0
\* or tier > 0, retracts the ladder by exactly one step: the bucket if it
\* was above 0, otherwise the tier.
C2_UpgradeOneStep ==
    upgradeDue =>
        IF preLadder.bucket > 0
        THEN /\ dprBucketIndex = preLadder.bucket - 1
             /\ tierUnchanged /\ capUnchanged
        ELSE /\ effectQualityLevel = preLadder.tier - 1
             /\ bucketUnchanged /\ capUnchanged

\* C3: one frame from a state with both accumulators at zero and an EMA not
\* below 55 fps leaves tier, bucket and base cap unchanged, whatever its
\* delta.
C3_SingleFrameNoChange ==
    ( /\ lastOp.op = "frame"
      /\ lastOp.pre.low = 0
      /\ lastOp.pre.high = 0
      /\ lastOp.pre.ema * 55 <= 1000000 )
    => ladderUnchanged

\* attemptDegrade has just run less than 4500 ms after the last resume event
degradeInsideGuard ==
    /\ lastOp.attempt = "degrade"
    /\ hist.resumedAt >= 0
    /\ lastOp.at < hist.resumedAt + 4500

\* C4: attemptDegrade(now) called less than 4500 ms after a resume event
\* changes neither the tier, nor the bucket, nor _lastPerfChangeTime.
C4_GuardBlocksDegrade ==
    degradeInsideGuard =>
        /\ tierUnchanged /\ bucketUnchanged
        /\ lastPerfChangeTime = preLadder.last

C4_Witness ==
    /\ degradeInsideGuard
    /\ lastOp.op = "callDegrade"
    /\ lastOp.at - preLadder.last >= 2000
    /\ preLadder.tier < worstTier
    /\ tierUnchanged

\* C5: while performance.now() < _resumeGuardUntil no operation of the page
\* (frame, resize event, handled resize) raises the tier index or the
\* bucket index.
C5_NoDowngradeInGuard ==
    ( /\ lastOp.op \in {"tick", "frame", "resizeEvent", "resize"}
      /\ lastOp.at < lastOp.guardUntil )
    => /\ effectQualityLevel <= preLadder.tier
       /\ dprBucketIndex <= preLadder.bucket

\* C6: each of the first 60 frames after a resume event leaves the EMA, both
\* accumulators, the ladder and _lastPerfChangeTime unchanged and decrements
\* the ignore counter; the 61st is fed to the EMA.
C6_PostResumeDiscard ==
    (lastOp.op = "frame" /\ hist.resumedAt >= 0) =>
        /\ hist.framesSinceResume \in 1..60 =>
              /\ emaFrameTime = lastOp.pre.ema
              /\ lowPerfAccum = lastOp.pre.low
              /\ highPerfAccum = lastOp.pre.high
              /\ ladderUnchanged
              /\ lastPerfChangeTime = preLadder.last
              /\ resumeIgnoreFrames = lastOp.pre.ignore - 1
        /\ hist.framesSinceResume = 61 =>
              /\ lastOp.pre.ignore = 0
              /\ emaFrameTime # lastOp.pre.ema

C6_Witness ==
    /\ lastOp.op = "frame"
    /\ hist.resumedAt >= 0
    /\ hist.framesSinceResume = 61
    /\ emaFrameTime # lastOp.pre.ema

\* C7: any two changes of the ladder state (tier, bucket or base cap), by
\* whichever operation, are at least 1300 ms apart.
C7_GlobalDebounce ==
    (lastOp.op # "init" /\ ~ladderUnchanged /\ lastOp.prevChangeAt >= 0)
    => lastOp.at - lastOp.prevChangeAt >= 1300

\* attemptDegrade / attemptUpgrade has just changed the ladder
controllerChanged ==
    /\ lastOp.attempt \in {"degrade", "upgrade"}
    /\ ~ladderUnchanged

insidePostResume ==
    hist.resumedAt >= 0 /\ lastOp.at < hist.resumedAt + 7000

\* C8: attemptDegrade and attemptUpgrade change the ladder only if the time
\* since the later of the last resume event and the last controller change
\* is at least 2000 ms during the 7000 ms after a resume event, and at least
\* 1300 ms otherwise.
C8_ExtendedDebounce ==
    controllerChanged =>
        lastOp.at - Max(hist.resumedAt, lastOp.prevCtlChangeAt)
            >= (IF insidePostResume THEN 2000 ELSE 1300)

C8_Witness ==
    /\ controllerChanged
    /\ lastOp.op = "callUpgrade"
    /\ insidePostResume

\* C9: one frame changes at most one of tier, bucket and base cap, and an
\* index by at most 1.
C9_OneStepPerFrame ==
    lastOp.op = "frame" =>
        /\ \/ (tierUnchanged /\ bucketUnchanged)
           \/ (tierUnchanged /\ capUnchanged)
           \/ (bucketUnchanged /\ capUnchanged)
        /\ effectQualityLevel - preLadder.tier \in {-1, 0, 1}
        /\ dprBucketIndex - preLadder.bucket \in {-1, 0, 1}

\* C10: outside setBaseCap the base cap changes only in attemptUpgrade,
\* from bucket 0 and tier 0 on a desktop with the cap below baseCapMax, and
\* becomes min(baseCapMax, old + 0.1); on phone, tablet and fanless devices
\* it never changes.
C10_BaseCapRaise ==
    (lastOp.op \notin {"init", "setBaseCap"} /\ ~capUnchanged) =>
        /\ lastOp.attempt = "upgrade"
        /\ preLadder.bucket = 0
        /\ preLadder.tier = 0
        /\ deviceProfile.category = "desktop"
        /\ preLadder.cap < deviceProfile.baseCapMax
        /\ deviceProfile.baseCapCurrent
              = Min(deviceProfile.baseCapMax, preLadder.cap + 10)

C10_Witness ==
    /\ lastOp.op = "frame"
    /\ ~capUnchanged
    /\ preLadder.cap + 10 > deviceProfile.baseCapMax
    /\ deviceProfile.baseCapCurrent = deviceProfile.baseCapMax

\* C11: no operation of a session (frame, resize, resume event, forceBucket,
\* forceTier, setBaseCap) lowers baseCapCurrent.
C11_BaseCapMonotone ==
    lastOp.op # "init" => deviceProfile.baseCapCurrent >= preLadder.cap

\* the current size and ratio exceed the pixel budget at bucket b
overBudgetAt(b) ==
    internalPixelsOverBudget(lastCSSW, lastCSSH,
        currentTargetPixelRatio(deviceProfile.baseCapCurrent, b, devicePixelRatio))

\* C12: the second of two enforcePixelBudget calls in succession, with the
\* CSS size, base cap and native ratio unchanged, leaves the bucket index
\* where the first one left it.
C12_BudgetIdempotent ==
    (lastOp.op = "enforce" /\ lastOp.arg >= 2) => bucketUnchanged

C12_Witness ==
    /\ lastOp.op = "enforce"
    /\ lastOp.arg = 2
    /\ bucketUnchanged
    /\ dprBucketIndex = 1
    /\ overBudgetAt(0)

\* C13: when enforcePixelBudget returns, the size is within the budget at
\* the current ratio or the bucket is the worst one; every bucket it passed
\* over was over budget; the bucket index was not lowered; tier and base cap
\* are unchanged.
C13_BudgetPostcondition ==
    lastOp.op = "enforce" =>
        /\ (~overBudgetAt(dprBucketIndex) \/ dprBucketIndex = worstBucket)
        /\ dprBucketIndex >= preLadder.bucket
        /\ \A b \in preLadder.bucket..(dprBucketIndex - 1) : overBudgetAt(b)
        /\ tierUnchanged
        /\ capUnchanged

C13_Witness ==
    /\ lastOp.op = "enforce"
    /\ preLadder.bucket = 0
    /\ dprBucketIndex = 1
    /\ ~overBudgetAt(1)

\* C14: from a 3840x2160 CSS size, base cap 1.55, bucket 0 and a native
\* ratio of at least 1.55, enforcePixelBudget ends with
\* 3840 * 2160 * ratio^2 <= 9,000,000.
C14_BudgetScenario4K ==
    ( /\ lastOp.op = "enforce"
      /\ lastCSSW = 3840 /\ lastCSSH = 2160
      /\ preLadder.cap = 155
      /\ preLadder.bucket = 0
      /\ devicePixelRatio >= 155 )
    => ~overBudgetAt(dprBucketIndex)

\* C15: from the initial controller state, with no resume guard armed, a
\* stream of frames at a constant 30 fps changes the ladder exactly once in
\* its first 5 seconds: the tier goes from 0 to 1, not before 4 seconds.
C15_ThirtyFps ==
    /\ (lastOp.op # "init" /\ ~ladderUnchanged) =>
          /\ lastOp.op = "frame"
          /\ lastOp.prevChangeAt = -1
          /\ preLadder.tier = 0
          /\ effectQualityLevel = 1
          /\ bucketUnchanged /\ capUnchanged
          /\ lastOp.at >= 4000
    /\ hist.changeAt = -1 => effectQualityLevel = 0
    /\ (now >= 5000 /\ clockOldTime = now) =>
          /\ effectQualityLevel = 1
          /\ hist.changeAt >= 4000 /\ hist.changeAt <= 5000

C15_Witness ==
    /\ lastOp.op = "frame"
    /\ now = 5000
    /\ frames = 150
    /\ effectQualityLevel = 1
    /\ deviceProfile.category = "phone"
    /\ deviceProfile.baseCapCurrent = 135

\* the native ratio in hundredths, 1.0 when the browser reports none
nativeHundredths == IF devicePixelRatio = 0 THEN 100 ELSE devicePixelRatio

\* baseCapCurrent * DPR_BUCKETS[bucketIndex], in thousandths
capTimesBucket == deviceProfile.baseCapCurrent * DPR_BUCKETS[dprBucketIndex + 1]

\* C16: the ratio an operation hands to renderer.setPixelRatio is
\* min(baseCapCurrent * DPR_BUCKETS[bucketIndex], 1.75, native ratio) for
\* the ladder state it leaves, and so exceeds neither 1.75 nor the native
\* ratio.
C16_EffectivePixelRatio ==
    lastOp.applies > 0 =>
        /\ rendererPixelRatio =
              Min(Min(capTimesBucket, 1750), nativeHundredths * 10)
        /\ rendererPixelRatio <= 1750
        /\ rendererPixelRatio <= nativeHundredths * 10

C16_Witness ==
    /\ lastOp.op = "apply"
    /\ capTimesBucket > nativeHundredths * 10
    /\ rendererPixelRatio = nativeHundredths * 10
    /\ devicePixelRatio = 155

\* C17: after any sequence of frames, handled resizes, resume events and
\* forceBucket(i) / forceTier(i) calls with any integer i, the tier index is
\* in [0, 3] and the bucket index in [0, number of buckets - 1].
C17_IndicesInRange ==
    /\ effectQualityLevel \in 0..3
    /\ dprBucketIndex \in 0..(Len(DPR_BUCKETS) - 1)

C17_Witness ==
    /\ lastOp.op = "forceTier"
    /\ lastOp.arg = 7
    /\ effectQualityLevel = 3

\* C18: for every combination of user agent, pointer type, screen size,
\* core count and native ratio, detectDeviceProfile returns
\* 0 < baseCapInitial <= baseCapMax <= min(1.75, native ratio) with
\* baseCapCurrent = baseCapInitial, and baseCapCurrent <= baseCapMax in every
\* later state.
C18_DeviceCaps ==
    /\ deviceProfile.baseCapInitial > 0
    /\ deviceProfile.baseCapInitial <= deviceProfile.baseCapMax
    /\ deviceProfile.baseCapMax <= Min(175, nativeHundredths)
    /\ lastOp.op = "init" =>
          deviceProfile.baseCapCurrent = deviceProfile.baseCapInitial
    /\ deviceProfile.baseCapCurrent <= deviceProfile.baseCapMax

C18_Witness ==
    /\ lastOp.op = "setBaseCap"
    /\ lastOp.arg = 300
    /\ deviceProfile.baseCapCurrent = deviceProfile.baseCapMax
    /\ deviceProfile.baseCapMax = devicePixelRatio
    /\ deviceProfile.baseCapInitial < deviceProfile.baseCapMax

\* C19: for a progress p in [0, 0.5] the glass configuration has
\* effectProgress = 2p and rightSideProgress = 0; for p in (0.5, 1] it has
\* effectProgress = 1 and rightSideProgress = 2(p - 0.5); in both cases
\* splitScreen is true and boundary is 0.5.
C19_GlassCoverage ==
    LET q == currentScrollProgress
    IN  (q.n >= 0 /\ q.n <= q.d) =>
            /\ glassMode.splitScreen = TRUE
            /\ fracEq(glassMode.boundary, frac(1, 2))
            /\ 2 * q.n <= q.d =>
                  /\ fracEq(glassMode.effectProgress, frac(2 * q.n, q.d))
                  /\ fracEq(glassMode.rightSideProgress, frac(0, 1))
            /\ 2 * q.n > q.d =>
                  /\ fracEq(glassMode.effectProgress, frac(1, 1))
                  /\ fracEq(glassMode.rightSideProgress, frac(2 * q.n - q.d, q.d))

C19_Witness ==
    /\ lastScrollOp.op = "scroll"
    /\ lastScrollOp.handled
    /\ 2 * scrollY = 3 * sectionHeight
    /\ fracEq(currentScrollProgress, frac(3, 4))
    /\ fracEq(glassMode.effectProgress, frac(1, 1))
    /\ fracEq(glassMode.rightSideProgress, frac(1, 2))

\* C20: a scroll event that finds the window at the snap target of a section
\* k in {0, 1, 2} (offset k * sectionHeight) computes target section k and
\* progress k / 2.
C20_SectionRoundTrip ==
    \A k \in 0..2 :
        ( /\ lastScrollOp.op = "scroll"
          /\ lastScrollOp.handled
          /\ scrollY = k * sectionHeight )
        => /\ scrollTimeout = k
           /\ fracEq(currentScrollProgress, frac(k, 2))

C20_Witness ==
    /\ lastScrollOp.op = "scroll"
    /\ lastScrollOp.handled
    /\ currentSection = 1
    /\ scrollToTop = scrollY
    /\ scrollY = sectionHeight
    /\ scrollTimeout = 1
    /\ fracEq(currentScrollProgress, frac(1, 2))

\* C21: after any scroll event, initialisation from the current scroll
\* position or snap-animation frame, currentScrollProgress lies in [0, 1],
\* for every scroll offset the window can report.
C21_ProgressRange ==
    /\ currentScrollProgress.n >= 0
    /\ currentScrollProgress.n <= currentScrollProgress.d

\* C22: in every reachable state currentSection is an integer in [0, 2],
\* after any sequence of initialisations from the current scroll position,
\* scroll events, wheel events and settle-timer snaps.
C22_SectionRange == currentSection \in 0..(TOTAL_SECTIONS - 1)

C24_OnePending ==
    /\ rafQueue <= 1
    /\ (rafQueue = 1) <=> (resizeRAF # 0)
    /\ resizeLog.handlings + rafQueue = resizeLog.bursts
    /\ resizeLog.sinceHandled > 0 => rafQueue = 1
    /\ lastOp.op = "resize" =>
           /\ resizeLog.sinceHandled = 0
           /\ lastCSSW = viewport[1]
           /\ lastCSSH = oversizedCssH(viewport[1], viewport[2])

C25_InputLock ==
    (/\ lastSysOp.op \in {"wheel", "keydown", "touchend"}
     /\ (lastSysOp.pre.isAnimating \/ lastSysOp.pre.inputLocked))
    => /\ scrollSystem.currentSection = lastSysOp.pre.currentSection
       /\ scrollSystem.wheelAccumulator = lastSysOp.pre.wheelAccumulator
       /\ scrollSystem.animsStarted = lastSysOp.pre.animsStarted
       /\ scrollSystem.anims = lastSysOp.pre.anims
       /\ scrollSystem.wheelTimeout = lastSysOp.pre.wheelTimeout

\* a mouse-wheel notch that would cross the threshold arrives during the
\* lock that follows a completed snap to panel 1
C25_Witness ==
    /\ lastSysOp.op = "wheel"
    /\ lastSysOp.arg = 600
    /\ lastSysOp.pre.inputLocked
    /\ ~lastSysOp.pre.isAnimating
    /\ lastSysOp.pre.currentSection = 1
    /\ scrollSystem.totalSections = 3
    /\ scrollSystem.currentSection = 1

\* C26: a missing effect is tolerated: each overlay setter called with a
\* null effect returns without raising and changes nothing, and
\* applyEffectQuality, _applyRendererPixelRatio and handleScroll run before
\* the effects are created complete without error and still update the
\* ladder and the scroll state.
C26_NullEffectTolerated ==
    /\ effects.reed # TypeError
    /\ effects.vignette # TypeError
    /\ (lastOp.op = "setter" /\ lastOp.pre.s.fx = noEffects)
           => effects = noEffects
    /\ (lastOp.op = "forceTier" /\ lastOp.pre.s.fx = noEffects)
           => /\ effects = noEffects
              /\ effectQualityLevel
                     = Min(Max(0, lastOp.arg), Len(EFFECT_QUALITY_LEVELS) - 1)
    /\ (lastOp.op \in {"forceBucket", "setBaseCap"}
        /\ lastOp.pre.s.fx = noEffects)
           => /\ effects = noEffects
              /\ lastOp.applies >= 1
              /\ rendererPixelRatio
                     = currentTargetPixelRatio(deviceProfile.baseCapCurrent,
                                               dprBucketIndex, devicePixelRatio)
              /\ lastOp.op = "forceBucket" =>
                     dprBucketIndex >= Min(Max(0, lastOp.arg),
                                           Len(DPR_BUCKETS) - 1)
              /\ lastOp.op = "setBaseCap" =>
                     deviceProfile.baseCapCurrent
                         = Min(Max(50, lastOp.arg), deviceProfile.baseCapMax)
    /\ (lastScrollOp.op = "scroll" /\ lastScrollOp.handled
        /\ ~effects.reed.exists)
           => /\ effects.reed = NullEffect
              /\ currentScrollProgress = scrollProgressFor(scrollY, sectionHeight)
              /\ glassMode = getGlassModeForProgress(currentScrollProgress)
              /\ scrollTimeout = targetSectionFor(scrollY, sectionHeight)

\* before any effect exists, forceBucket has lowered the pixel ratio and
\* setBottomVignetteResolution is then called with the null handle
C26_Witness ==
    /\ lastOp.op = "setter"
    /\ lastOp.arg = "setBottomVignetteResolution"
    /\ lastOp.pre.s.fx = noEffects
    /\ effects = noEffects
    /\ dprBucketIndex = 2

\* C27: in every frame whose smoothed rate is in the neutral band
\* (55 <= EMA FPS < 65) neither accumulator increases, each becomes
\* max(0, previous - 400 * delta), and no ladder step is attempted; the
\* accumulators are never negative in any reachable state.
C27_NeutralBand ==
    /\ lowPerfAccum >= 0
    /\ highPerfAccum >= 0
    /\ (/\ lastOp.op = "frame"
        /\ ~emaBelowDrop(emaFrameTime)
        /\ ~emaAtLeastRaise(emaFrameTime))
       => /\ lowPerfAccum <= lastOp.pre.low
          /\ highPerfAccum <= lastOp.pre.high
          /\ lowPerfAccum
                 = Max(0, lastOp.pre.low - ACCUM_DECAY_PER_MS * lastOp.arg)
          /\ highPerfAccum
                 = Max(0, lastOp.pre.high - ACCUM_DECAY_PER_MS * lastOp.arg)
          /\ lastOp.attempt = "none"
          /\ lastOp.applies = 0
          /\ tierUnchanged /\ bucketUnchanged /\ capUnchanged
          /\ lastPerfChangeTime = preLadder.last

\* a neutral frame that decays a low accumulator built up by two slow frames
C27_Witness ==
    /\ lastOp.op = "frame"
    /\ lastOp.band = "neutral"
    /\ lastOp.arg = 10
    /\ lastOp.pre.low = 60000
    /\ lowPerfAccum = 56000
    /\ highPerfAccum = 0

\* C28: whenever an operation changes the tier or the bucket index
\* (attemptDegrade or attemptUpgrade in a frame, or enforcePixelBudget
\* triggered by a resize), both accumulators are zero when the operation
\* returns.
C28_AccumulatorsResetOnChange ==
    (/\ lastOp.op \in {"frame", "resize"}
     /\ (~tierUnchanged \/ ~bucketUnchanged))
    => /\ lowPerfAccum = 0
       /\ highPerfAccum = 0

\* C29: whenever the reeded-glass effect exists, after any ladder change
\* and after any handled resize its resolution equals
\* (floor(cssW * s), floor(cssH * s)), where s is the reededScale of the
\* current tier.
C29_ReededResolution ==
    (/\ effects.reed.exists
     /\ \/ lastOp.op = "resize"
        \/ (lastOp.op \in {"frame", "forceTier", "forceBucket", "setBaseCap"}
            /\ ~ladderUnchanged))
    => effects.reed.resolution
           = <<(lastCSSW * REEDED_SCALE[effectQualityLevel + 1]) \div 10,
               (lastCSSH * REEDED_SCALE[effectQualityLevel + 1]) \div 10>>

\* C30: after any pixel-ratio change and after any handled resize, the
\* vignette resolution and the depth render-target size both equal the CSS
\* canvas size multiplied by the effective pixel ratio last set on the
\* renderer (the size of the main framebuffer).
C30_CoupledResolutions ==
    (\/ lastOp.op = "resize"
     \/ rendererPixelRatio # preLadder.epr)
    => /\ effects.vignette.exists
              => effects.vignette.resolution
                     = <<(lastCSSW * rendererPixelRatio) \div 1000,
                         (lastCSSH * rendererPixelRatio) \div 1000>>
       /\ effects.depthRT.exists
              => effects.depthRT.size
                     = <<(lastCSSW * rendererPixelRatio) \div 1000,
                         (lastCSSH * rendererPixelRatio) \div 1000>>

\* the scroll handler or a snap frame has just pushed the values computed
\* from currentScrollProgress
pushedFromProgress ==
    \/ lastScrollOp.op = "scroll" /\ lastScrollOp.handled
    \/ lastScrollOp.op = "tween"

C32_ResumeKeepsLadder ==
    lastOp.op = "resume" =>
        /\ tierUnchanged /\ bucketUnchanged /\ capUnchanged
        /\ resumeGuardUntil = lastOp.at + 4500
        /\ resumeIgnoreFrames = 60
        /\ postResumeDebounceUntil = lastOp.at + 7000
        /\ emaFrameTime = EMA_INITIAL
        /\ lowPerfAccum = 0
        /\ highPerfAccum = 0
        /\ lastPerfChangeTime = lastOp.at

\* a second resume event, later than the first, with the ladder degraded
C32_Witness ==
    /\ lastOp.op = "resume"
    /\ lastOp.guardUntil > 0
    /\ lastOp.at + 4500 > lastOp.guardUntil
    /\ resumeGuardUntil = lastOp.at + 4500
    /\ effectQualityLevel > 0

\* the wheel event just handled arrived while the ScrollSystem was unlocked
wheelHandledUnlocked ==
    /\ lastSysOp.op = "wheel"
    /\ ~lastSysOp.pre.isAnimating
    /\ ~lastSysOp.pre.inputLocked
    /\ ~lastSysOp.pre.prefersReducedMotion

\* the deltaY accumulated up to and including the event just handled
wheelAccumulated == lastSysOp.pre.wheelAccumulator + lastSysOp.arg

\* the panel a navigation by the accumulated delta leads to
wheelTarget ==
    LET step == (IF wheelAccumulated > 0 THEN 1 ELSE -1)
                    * (IF Abs(wheelAccumulated) >= 600 THEN 2 ELSE 1)
    IN  Max(0, Min(lastSysOp.pre.currentSection + step,
                   scrollSystem.totalSections - 1))

\* C33: a wheel event handled while unlocked starts a navigation exactly
\* when the absolute value of the accumulated deltaY reaches the threshold
\* (120 if the event's |deltaY| > 40, else 90); the move is 2 sections in the
\* accumulator's direction if that absolute value is at least 600 and 1
\* section otherwise; the accumulator is zero after a navigation attempt and
\* after 250 ms without wheel events (the accumulation timer, which is
\* pending whenever the accumulator is not zero).
C33_WheelAccumulation ==
    /\ wheelHandledUnlocked =>
          IF Abs(wheelAccumulated)
                 >= (IF Abs(lastSysOp.arg) > 40 THEN 120 ELSE 90)
          THEN /\ scrollSystem.currentSection = wheelTarget
               /\ scrollSystem.animsStarted
                      = lastSysOp.pre.animsStarted
                        + (IF wheelTarget # lastSysOp.pre.currentSection
                           THEN 1 ELSE 0)
               /\ scrollSystem.wheelAccumulator = 0
          ELSE /\ scrollSystem.currentSection = lastSysOp.pre.currentSection
               /\ scrollSystem.animsStarted = lastSysOp.pre.animsStarted
               /\ scrollSystem.wheelAccumulator = wheelAccumulated
    /\ lastSysOp.op = "wheelTimeout" => scrollSystem.wheelAccumulator = 0
    /\ scrollSystem.wheelAccumulator # 0 => scrollSystem.wheelTimeout

\* the third trackpad event of 30 brings the accumulator to 90 and starts a
\* navigation by one panel
C33_Witness ==
    /\ wheelHandledUnlocked
    /\ lastSysOp.arg = 30
    /\ lastSysOp.pre.wheelAccumulator = 60
    /\ scrollSystem.currentSection = lastSysOp.pre.currentSection + 1
    /\ scrollSystem.isAnimating
    /\ scrollSystem.wheelAccumulator = 0

\* C34: after every completed operation that can change the CSS size, the
\* bucket index or baseCapCurrent (handled resize, attemptDegrade and
\* attemptUpgrade in a frame, forceBucket, setBaseCap, initial set-up), either
\* cssW * cssH * currentTargetPixelRatio()^2 <= 9,000,000 or the bucket index
\* is the worst bucket.
C34_BudgetAfterEveryOperation ==
    lastOp.op \in {"init", "resize", "frame", "forceBucket", "setBaseCap"}
    => \/ ~overBudgetAt(dprBucketIndex)
       \/ dprBucketIndex = worstBucket

\* setBaseCap raises the cap so far that bucket 0 is over the budget, and the
\* bucket is stepped until the size fits
C34_Witness ==
    /\ lastOp.op = "setBaseCap"
    /\ deviceProfile.baseCapCurrent > preLadder.cap
    /\ overBudgetAt(preLadder.bucket)
    /\ dprBucketIndex > preLadder.bucket
    /\ ~overBudgetAt(dprBucketIndex)

\* the slow frames are over and the smoothed rate is at or above
\* PERF_FPS_RAISE_THRESHOLD; the frames that follow keep it there
fastFromNowOn ==
    /\ frames >= MaxSlowFrames
    /\ emaAtLeastRaise(emaFrameTime)

tierRecovered == effectQualityLevel = 0

\* C35: with no resize, resume or override events, if every frame from some
\* point on has EMA FPS at or above PERF_FPS_RAISE_THRESHOLD, then from every
\* ladder state and every CSS canvas size the controller eventually reaches
\* effect tier index 0.
C35_TierRecovery == fastFromNowOn ~> tierRecovered

\* attemptDegrade returns at its resume-guard test or at its debounce test,
\* or finds the tier and the bucket at their last index
degradeRefused ==
    \/ lastOp.at < lastOp.guardUntil
    \/ ~debounceElapsed
    \/ preLadder.tier = worstTier /\ preLadder.bucket = worstBucket

\* attemptUpgrade returns at its debounce test, or finds bucket 0, tier 0 and
\* no base cap to raise
upgradeRefused ==
    \/ ~debounceElapsed
    \/ /\ preLadder.bucket = 0
       /\ preLadder.tier = 0
       /\ ~(deviceProfile.category = "desktop"
            /\ preLadder.cap < deviceProfile.baseCapMax)

\* C36: when the low (high) accumulator reaches its duration in a frame where
\* attemptDegrade (attemptUpgrade) is refused by the debounce or the resume
\* guard, or is at the floor (ceiling) of the ladder, the tier, the bucket,
\* baseCapCurrent and _lastPerfChangeTime are unchanged and that accumulator
\* is nevertheless zero after the frame.
C36_RefusedAttemptConsumesAccumulator ==
    /\ (lowAccumFull /\ degradeRefused) =>
           /\ ladderUnchanged
           /\ lastPerfChangeTime = preLadder.last
           /\ lowPerfAccum = 0
    /\ (highAccumFull /\ upgradeRefused) =>
           /\ ladderUnchanged
           /\ lastPerfChangeTime = preLadder.last
           /\ highPerfAccum = 0

C36_Witness ==
    /\ lowAccumFull
    /\ lastOp.at < lastOp.guardUntil
    /\ debounceElapsed
    /\ preLadder.tier < worstTier
    /\ lowPerfAccum = 0
    /\ ladderUnchanged

\* C37: for every sequence of wheel, keyboard and touch events and public
\* goToSection calls, at most one navigation tween of the ScrollSystem is in
\* flight at any time, and isAnimating is true whenever a tween started by
\* navigateToSection has not yet completed.
C37_OneSnapAtATime ==
    /\ scrollSystem.anims <= 1
    /\ scrollSystem.anims > 0 => scrollSystem.isAnimating

\* a step taken while the page's wheel lock is held starts no snapToSection
\* (no scrollTo target, no progress tween) and keeps currentSection
lockedStepKeepsSection ==
    isScrolling =>
        /\ currentSection' = currentSection
        /\ scrollToTop' = scrollToTop
        /\ tweens' \subseteq tweens

\* C38: while isScrolling is true (the 1000 ms after a wheel-triggered snap)
\* no further snapToSection call starts and currentSection does not change,
\* under every interleaving of wheel events, scroll events and the 150 ms
\* scroll-settle timer, including a settle timer that was scheduled before
\* the lock was taken.
C38_PageWheelLock == [][lockedStepKeepsSection]_vars

systemAnimating == scrollSystem.isAnimating
systemLocked == scrollSystem.inputLocked
systemUnlocked == ~scrollSystem.inputLocked
systemAcceptsInput == ~scrollSystem.isAnimating /\ ~scrollSystem.inputLocked

\* onComplete has cleared isAnimating, set inputLocked and set the 300 ms
\* timer; the timer's callback has cleared inputLocked
completionLocksInput ==
    /\ lastSysOp.op = "complete" =>
           /\ ~scrollSystem.isAnimating
           /\ scrollSystem.inputLocked
           /\ scrollSystem.lockTimers = lastSysOp.pre.lockTimers + 1
    /\ lastSysOp.op = "unlock" => ~scrollSystem.inputLocked

\* the target navigateToSection was called with by the last event, if the
\* event reached it
navigateTarget ==
    CASE lastSysOp.op = "goToSection" -> lastSysOp.arg
      [] lastSysOp.op = "keydown" /\ lastSysOp.arg = "Home" -> 0
      [] lastSysOp.op = "keydown" /\ lastSysOp.arg = "End" ->
             lastSysOp.pre.totalSections - 1
      [] lastSysOp.op = "keydown" /\ lastSysOp.arg = "ArrowDown" ->
             lastSysOp.pre.currentSection + 1
      [] lastSysOp.op = "keydown" /\ lastSysOp.arg = "PageUp" ->
             lastSysOp.pre.currentSection - 1
      [] OTHER -> -2

navigateCalled ==
    \/ lastSysOp.op = "goToSection"
    \/ /\ lastSysOp.op = "keydown"
       /\ lastSysOp.arg \in {"Home", "End", "ArrowDown", "PageUp"}
       /\ ~inputBlocked(lastSysOp.pre)

\* a call whose clamped target is the current section changes neither flag
\* and starts no animation
sameTargetSetsNothing ==
    ( /\ navigateCalled
      /\ Max(0, Min(navigateTarget, lastSysOp.pre.totalSections - 1))
             = lastSysOp.pre.currentSection ) =>
        /\ scrollSystem.isAnimating = lastSysOp.pre.isAnimating
        /\ scrollSystem.inputLocked = lastSysOp.pre.inputLocked
        /\ scrollSystem.animsStarted = lastSysOp.pre.animsStarted

budgetCallReturned == lastOp.op \in {"apply", "enforce"}

\* iterations of the while loop of enforcePixelBudget during the operation:
\* each one is one `_dprBucketIndex++`, and nothing else moves the index
budgetLoopIterations == dprBucketIndex - preLadder.bucket

\* activations of enforcePixelBudget nested in the operation: one per
\* _applyRendererPixelRatio activation, and the outer one when the operation
\* entered at enforcePixelBudget
enforceActivations ==
    lastOp.applies + (IF lastOp.op = "enforce" THEN 1 ELSE 0)

\* C40: from every ladder state and CSS size the mutual recursion of
\* _applyRendererPixelRatio and enforcePixelBudget returns, the loop of
\* enforcePixelBudget has run at most (number of buckets - 1) times in total,
\* neither function is nested deeper than the number of buckets, and the
\* ratio last given to the renderer is currentTargetPixelRatio() of the
\* ladder state the call leaves.
C40_BudgetRecursionTerminates ==
    budgetCallReturned =>
        /\ budgetLoopIterations \in 0..(Len(DPR_BUCKETS) - 1)
        /\ lastOp.applies <= Len(DPR_BUCKETS)
        /\ enforceActivations <= Len(DPR_BUCKETS)
        /\ lastOp.applies > 0 =>
               rendererPixelRatio =
                   currentTargetPixelRatio(deviceProfile.baseCapCurrent,
                                           dprBucketIndex, devicePixelRatio)

C40_Witness ==
    /\ lastOp.op = "apply"
    /\ budgetLoopIterations = Len(DPR_BUCKETS) - 1
    /\ lastOp.applies = 2
    /\ overBudgetAt(dprBucketIndex)

====
